---- MODULE Spec2Model ----
(***************************************************************************)
(* The gossip broadcast nodes of solutions-rust/src/bin:                   *)
(*   broadcast-multi-node.rs       (neighbors from the Topology message)   *)
(*   broadcast-efficient-part-2.rs (neighbors from a stride partition)     *)
(* Both programs share the engine loop, the message set and the            *)
(* per-node RemoteNodeHandler buffers; they differ in the Init and         *)
(* Topology arms only.  The variable program says which binary runs.       *)
(*                                                                         *)
(* Spec / SpecStride: one process fed any envelope of the protocol, in     *)
(* any order.  ClusterMulti / ClusterStride: several processes joined by   *)
(* a network that loses, duplicates and reorders, with fairness.           *)
(* The msg_id counter and the wall clock are not tracked by these          *)
(* specifications: a sent envelope is recorded without its own msg_id,     *)
(* and whether the flush deadline has passed at the end of an iteration    *)
(* is chosen by the environment.  SpecClock is one process with the wall   *)
(* clock and the deadline; SpecQueue is one process with the thread of     *)
(* read_stdin and the channel between it and the loop.                     *)
(*                                                                         *)
(* The other programs of the repository have a specification each:         *)
(*   SpecIds      the msg_id counter of envelope.rs                        *)
(*   SpecCounter  grow-only-counter.rs over the seq-kv service             *)
(*   SpecKafka    kafka-part-1.rs                                          *)
(*   SpecUuid     unique-id-generation.rs                                  *)
(*   SpecFlood    the flooding broadcast of src/broadcast on the runtime   *)
(*                of src/maelstrom-common                                  *)
(***************************************************************************)
EXTENDS Integers, Sequences, FiniteSets, Bags, TLC

VARIABLES
    program,               \* which binary every process runs
    our_id,                \* per process: String, "" until Init
    all_node_ids,          \* per process: Vec<String> (efficient-part-2 only)
    remote_node_handlers,  \* per process: HashMap<String, RemoteNodeHandler>
    our_neighbors,         \* per process: Vec<String>
    messages,              \* per process: HashSet<usize>
    pc,                    \* per process: "running" or "panicked"
    sent,                  \* the envelopes the last iteration wrote to stdout, in order
    last,                  \* what the last iteration of the engine loop processed
    net,                   \* cluster: envelopes in flight between processes
    broadcasted,           \* per process: the values of the Broadcast envelopes it received
    now,                   \* SpecClock: the last reading of Instant::now(), in ms
    deadline,              \* SpecClock: the flush deadline, in ms
    start_time,            \* SpecClock: the reading of Instant::now() that armed the deadline
    waited,                \* SpecClock: how long the last recv_timeout blocked, in ms
    stdin_read,            \* SpecQueue: the envelopes read_stdin decoded so far, in order
    rx,                    \* SpecQueue: the channel from read_stdin to the loop
    handled,               \* SpecQueue: the envelopes the loop received so far, in order
    reader,                \* SpecQueue: the thread of read_stdin, "reading" or "ended"
    MESSAGE_ID,            \* SpecIds: the static AtomicUsize of envelope.rs
    built,                 \* SpecIds: the envelopes the process built so far, in order
    locals,                \* SpecCounter: per node, the locals of handle_message and MESSAGE_ID
    seq_kv,                \* SpecCounter: the value of the key "total" in seq-kv, None until created
    wire,                  \* SpecCounter: the envelopes in flight
    added,                 \* SpecCounter: per node, the sum of the deltas answered with AddOk
    logs,                  \* SpecKafka: LogState.logs, HashMap<String, Log>
    kafka_last,            \* SpecKafka: the last request, its reply, and whether the arm ran
    sends,                 \* SpecKafka: per key, the messages sent and the offsets of their SendOk
    commits,               \* SpecKafka: per key, the offsets the CommitOffsets processed named
    uuid,                  \* SpecUuid: per process, our_id, the counter id, and whether it runs
    generated,             \* SpecUuid: per process, the ids of its GenerateOks, in order
    actor,                 \* SpecFlood: per node, the Broadcast struct of src/broadcast
    buffer,                \* SpecFlood: per node, the String the stdin thread reads lines into
    inbound_msg_rx,        \* SpecFlood: per node, the channel from the stdin thread to the loop
    links,                 \* SpecFlood: the bag of lines on their way to the stdin of a node
    asked,                 \* SpecFlood: the lines the client sent so far
    answered               \* SpecFlood: the responses written to the client so far

vars == <<program, our_id, all_node_ids, remote_node_handlers, our_neighbors,
          messages, pc, sent, last, net, broadcasted, now, deadline, start_time, waited,
          stdin_read, rx, handled, reader, MESSAGE_ID, built,
          locals, seq_kv, wire, added, logs, kafka_last, sends, commits,
          uuid, generated, actor, buffer, inbound_msg_rx, links, asked, answered>>

clock == <<now, deadline, start_time, waited>>

pipe == <<stdin_read, rx, handled, reader>>

ids == <<MESSAGE_ID, built>>

\* The variables of the gossip nodes, and those of the specifications of the
\* other parts of the repository.
gossip == <<program, our_id, all_node_ids, remote_node_handlers, our_neighbors,
            messages, pc, sent, last, net, broadcasted, clock, pipe>>

goc == <<locals, seq_kv, wire, added>>

kafka == <<logs, kafka_last, sends, commits>>

uid == <<uuid, generated>>

flood == <<actor, buffer, inbound_msg_rx, links, asked, answered>>

rest == <<ids, goc, kafka, uid, flood>>

(***************************************************************************)
(* Bounds and program constants                                            *)
(***************************************************************************)
STRIDE == 4

\* SYNC_INTERVAL, in ms.
SYNC_INTERVAL == 250

MaxValue == 2

MaxLen == 2

MaxLoad == 4

MaxList == 8

MaxTime == 1000

MaxLines == 4

MaxBuilt == 5

MaxAdds == 2

MaxIds == 6

MaxLog == 2

MaxGenerate == 12

Multi == "broadcast-multi-node"

Efficient == "broadcast-efficient-part-2"

Values == 1..MaxValue

\* The process of the single-node specifications.
P1 == "n1"

MaxNodes == 3

NodeNames == <<"n1", "n2", "n3", "n4", "n5", "n6", "n7", "n8", "n9", "n10", "n11", "n12">>

Procs == {NodeNames[i] : i \in 1..MaxNodes}

(***************************************************************************)
(* Helpers                                                                 *)
(***************************************************************************)
None == <<>>

Some(x) == <<x>>

Contains(s, x) == \E i \in DOMAIN s : s[i] = x

Range(s) == {s[i] : i \in DOMAIN s}

Count(s, x) == Cardinality({i \in DOMAIN s : s[i] = x})

\* Every order in which an iterator over the unordered collection S can yield it.
Orders(S) ==
    {o \in [1..Cardinality(S) -> S] : \A i, j \in 1..Cardinality(S) : o[i] = o[j] => i = j}

SeqsUpTo(S, n) == UNION {[1..k -> S] : k \in 0..n}

EmptyMap == [k \in {} |-> 0]

\* HashMap::insert
Insert(map, key, value) ==
    [k \in (DOMAIN map) \cup {key} |-> IF k = key THEN value ELSE map[k]]

(***************************************************************************)
(* envelope.rs                                                             *)
(***************************************************************************)
\* Body::msg_id: the Option carried by the envelope (None when it has none).
msg_id(env) == IF "msg_id" \in DOMAIN env THEN env.msg_id ELSE None

\* Envelope::new, without the msg_id it draws from MESSAGE_ID.
Envelope_new(src, dest, in_reply_to, message) ==
    [src |-> src, dest |-> dest, in_reply_to |-> in_reply_to, message |-> message]

\* Variant: a reply is a new envelope back to the sender, tied to no request.
reply_uncorrelated(env, message) ==
    Envelope_new(env.dest, env.src, None, message)

\* Envelope::reply, without the msg_id it draws from MESSAGE_ID.
reply(env, message) ==
    [src |-> env.dest, dest |-> env.src, in_reply_to |-> msg_id(env), message |-> message]

(***************************************************************************)
(* RemoteNodeHandler                                                       *)
(***************************************************************************)
RemoteNodeHandler_new == [unacknowledged_messages |-> <<>>]

send_message(handler, message) ==
    [handler EXCEPT !.unacknowledged_messages = Append(@, message)]

\* Variant: an acknowledgment empties the buffer.
acknowledge_all(handler, acknowledged) ==
    [handler EXCEPT !.unacknowledged_messages = <<>>]

\* Variant: an acknowledgment retires as many of the oldest entries as it names.
acknowledge_count(handler, acknowledged) ==
    [handler EXCEPT !.unacknowledged_messages =
        SubSeq(@, Len(acknowledged) + 1, Len(@))]

\* Variant: an acknowledgment retires nothing.
acknowledge_none(handler, acknowledged) == handler

acknowledge_synced(handler, acknowledged) ==
    [handler EXCEPT !.unacknowledged_messages =
        SelectSeq(@, LAMBDA message : ~Contains(acknowledged, message))]

(***************************************************************************)
(* The state of one process, as a record, and the handlers of the engine   *)
(* loop as operators from a state and an envelope to                       *)
(*   [st: the state after, out: the envelopes sent, ok: FALSE on a panic]. *)
(* A panic (unwrap on None, unimplemented!) ends the handler where it      *)
(* happens: what it changed before stays changed, and nothing is sent.     *)
(***************************************************************************)
Node(p) ==
    [our_id |-> our_id[p],
     all_node_ids |-> all_node_ids[p],
     remote_node_handlers |-> remote_node_handlers[p],
     our_neighbors |-> our_neighbors[p],
     messages |-> messages[p]]

\* The state main() starts the loop with.
InitialNode ==
    [our_id |-> "",
     all_node_ids |-> <<>>,
     remote_node_handlers |-> EmptyMap,
     our_neighbors |-> <<>>,
     messages |-> {}]

Done(st, out) == [st |-> st, out |-> out, ok |-> TRUE]

Panic(st) == [st |-> st, out |-> <<>>, ok |-> FALSE]

\* for (_, node_id) in node_ids: remote_node_handlers.insert(node_id, new())
RECURSIVE InsertHandlers(_, _)
InsertHandlers(handlers, node_ids) ==
    IF node_ids = <<>> THEN handlers
    ELSE InsertHandlers(Insert(handlers, Head(node_ids), RemoteNodeHandler_new),
                        Tail(node_ids))

\* Variant: Init starts the node afresh, message set included.
HandleInitFresh(prog, st, env) ==
    Done([st EXCEPT !.our_id = env.message.node_id,
                    !.all_node_ids = IF prog = Efficient THEN env.message.node_ids ELSE @,
                    !.remote_node_handlers = InsertHandlers(@, env.message.node_ids),
                    !.messages = {}],
         <<reply(env, [type |-> "init_ok"])>>)

\* Variant: Init makes every listed node a neighbor.
HandleInitNeighbors(prog, st, env) ==
    Done([st EXCEPT !.our_id = env.message.node_id,
                    !.all_node_ids = IF prog = Efficient THEN env.message.node_ids ELSE @,
                    !.remote_node_handlers = InsertHandlers(@, env.message.node_ids),
                    !.our_neighbors = env.message.node_ids],
         <<reply(env, [type |-> "init_ok"])>>)

HandleInit(prog, st, env) ==
    LET m == env.message
        st1 == [st EXCEPT !.our_id = m.node_id,
                          !.all_node_ids = IF prog = Efficient THEN m.node_ids ELSE @,
                          !.remote_node_handlers = InsertHandlers(@, m.node_ids)]
    IN  Done(st1, <<reply(env, [type |-> "init_ok"])>>)

\* all_node_ids.iter().position(|node_id| node_id == &our_id), 0-based; None when absent.
Position(node_ids, id) ==
    IF Contains(node_ids, id)
    THEN Some((CHOOSE i \in DOMAIN node_ids :
                  /\ node_ids[i] = id
                  /\ \A j \in DOMAIN node_ids : node_ids[j] = id => i <= j) - 1)
    ELSE None

\* iter().skip(k).step_by(STRIDE).cloned().collect()
SkipStepBy(node_ids, k) ==
    LET picked == {i \in DOMAIN node_ids : i - 1 >= k /\ (i - 1 - k) % STRIDE = 0}
        nth(j) == k + 1 + (j - 1) * STRIDE
    IN  [j \in 1..Cardinality(picked) |-> node_ids[nth(j)]]

\* Variant: the offset is our_position + 1, not reduced modulo STRIDE.
StrideNeighborsNoRem(node_ids, our_position) ==
    SkipStepBy(node_ids, our_position + 1)

StrideNeighbors(node_ids, our_position) ==
    SkipStepBy(node_ids, (our_position + 1) % STRIDE)

HandleTopology(prog, st, env) ==
    IF prog = Efficient
    THEN LET our_position == Position(st.all_node_ids, st.our_id)
         IN  IF our_position = None
             THEN Panic(st)
             ELSE Done([st EXCEPT !.our_neighbors =
                            StrideNeighbors(st.all_node_ids, our_position[1])],
                       <<reply(env, [type |-> "topology_ok"])>>)
    ELSE LET topology == env.message.topology
         IN  IF st.our_id \notin DOMAIN topology
             THEN Panic(st)
             ELSE Done([st EXCEPT !.our_neighbors = topology[st.our_id]],
                       <<reply(env, [type |-> "topology_ok"])>>)

\* What a handler body yields before its reply: [st, ok].
Ran(st) == [st |-> st, ok |-> TRUE]

Unwrapped(st) == [st |-> st, ok |-> FALSE]

\* envelope.reply(message).send() at the end of an arm that ran as r.
ThenReply(r, env, message) ==
    IF r.ok THEN Done(r.st, <<reply(env, message)>>) ELSE Panic(r.st)

\* for neighbor in &our_neighbors:
\*     remote_node_handlers.get_mut(neighbor).unwrap().send_message(message)
\* from the i-th neighbor on; the unwrap panics on a neighbor without a handler.
RECURSIVE FanOutFrom(_, _, _)
FanOutFrom(st, message, i) ==
    IF i > Len(st.our_neighbors) THEN Ran(st)
    ELSE IF st.our_neighbors[i] \notin DOMAIN st.remote_node_handlers
         THEN Unwrapped(st)
         ELSE FanOutFrom([st EXCEPT !.remote_node_handlers[st.our_neighbors[i]] =
                                send_message(@, message)],
                         message, i + 1)

FanOut(st, message) == FanOutFrom(st, message, 1)

\* Variant: every observation fans out, the first or not.
ObserveAgain(st, message) ==
    FanOut([st EXCEPT !.messages = @ \cup {message}], message)

\* Variant: a value is handed to the neighbors and not stored.
ObserveUnstored(st, message) == FanOut(st, message)

\* if messages.insert(message) { fan out }
Observe(st, message) ==
    IF message \in st.messages
    THEN Ran(st)
    ELSE FanOut([st EXCEPT !.messages = @ \cup {message}], message)

HandleBroadcast(st, env) ==
    ThenReply(Observe(st, env.message.message), env, [type |-> "broadcast_ok"])

\* Variant: the Read arm lists the message set twice over.
HandleReadTwice(st, env, order) ==
    Done(st, <<reply(env, [type |-> "read_ok", messages |-> order \o order])>>)

\* messages.iter().copied().collect(): order is one of the orders of the HashSet.
HandleRead(st, env, order) ==
    Done(st, <<reply(env, [type |-> "read_ok", messages |-> order])>>)

\* for &message in inbound { if messages.insert(message) { fan out } }, r the
\* loop so far.
RECURSIVE ObserveAll(_, _)
ObserveAll(r, inbound) ==
    IF inbound = <<>> \/ ~r.ok THEN r
    ELSE ObserveAll(Observe(r.st, Head(inbound)), Tail(inbound))

\* Variant: the SyncOk names the newly observed values only.
HandleSyncNew(st, env) ==
    ThenReply(ObserveAll(Ran(st), env.message.messages), env,
              [type |-> "sync_ok",
               messages |-> SelectSeq(env.message.messages, LAMBDA v : v \notin st.messages)])

\* Variant: the Sync arm answers without storing the values.
HandleSyncUnstored(st, env) ==
    Done(st, <<reply(env, [type |-> "sync_ok", messages |-> env.message.messages])>>)

HandleSync(st, env) ==
    ThenReply(ObserveAll(Ran(st), env.message.messages), env,
              [type |-> "sync_ok", messages |-> env.message.messages])

\* Variant: a SyncOk retires its values from the buffer of every node.
HandleSyncOkAll(st, env) ==
    IF env.src \notin DOMAIN st.remote_node_handlers
    THEN Panic(st)
    ELSE Done([st EXCEPT !.remote_node_handlers =
                    [n \in DOMAIN @ |-> acknowledge_synced(@[n], env.message.messages)]],
              <<>>)

HandleSyncOk(st, env) ==
    IF env.src \notin DOMAIN st.remote_node_handlers
    THEN Panic(st)
    ELSE Done([st EXCEPT !.remote_node_handlers[env.src] =
                    acknowledge_synced(@, env.message.messages)],
              <<>>)

\* match envelope.message() { ... _ => unimplemented!() }
Dispatch(prog, st, env, order) ==
    CASE env.message.type = "init" -> HandleInit(prog, st, env)
      [] env.message.type = "topology" -> HandleTopology(prog, st, env)
      [] env.message.type = "broadcast" -> HandleBroadcast(st, env)
      [] env.message.type = "broadcast_ok" -> Done(st, <<>>)
      [] env.message.type = "read" -> HandleRead(st, env, order)
      [] env.message.type = "sync" -> HandleSync(st, env)
      [] env.message.type = "sync_ok" -> HandleSyncOk(st, env)
      [] OTHER -> Panic(st)

\* The flush: one Sync per handler with a non-empty buffer, in the order the
\* HashMap iterator yields them; the buffers are left as they are.
NonEmptyHandlers(st) ==
    {n \in DOMAIN st.remote_node_handlers :
        st.remote_node_handlers[n].unacknowledged_messages # <<>>}

\* Variant: a flush sends nothing.
FlushNothing(st, order) == <<>>

\* Variant: a flush sends the oldest value of each buffer only.
FlushHead(st, order) ==
    [i \in DOMAIN order |->
        Envelope_new(st.our_id, order[i], None,
                     [type |-> "sync",
                      messages |-> <<Head(st.remote_node_handlers[order[i]].unacknowledged_messages)>>])]

\* Variant: a Sync lists the positions in the buffer instead of the values.
FlushPositions(st, order) ==
    [i \in DOMAIN order |->
        Envelope_new(st.our_id, order[i], None,
                     [type |-> "sync",
                      messages |-> [j \in DOMAIN st.remote_node_handlers[order[i]].unacknowledged_messages |-> j]])]

Flush(st, order) ==
    [i \in DOMAIN order |->
        Envelope_new(st.our_id, order[i], None,
                     [type |-> "sync",
                      messages |-> st.remote_node_handlers[order[i]].unacknowledged_messages])]

(***************************************************************************)
(* One iteration of the engine loop of process p                           *)
(***************************************************************************)
Store(p, st) ==
    /\ our_id' = [our_id EXCEPT ![p] = st.our_id]
    /\ all_node_ids' = [all_node_ids EXCEPT ![p] = st.all_node_ids]
    /\ remote_node_handlers' = [remote_node_handlers EXCEPT ![p] = st.remote_node_handlers]
    /\ our_neighbors' = [our_neighbors EXCEPT ![p] = st.our_neighbors]
    /\ messages' = [messages EXCEPT ![p] = st.messages]

NoEnvelope == [src |-> "", dest |-> "", message |-> [type |-> "none"]]

\* recv_timeout returned Ok(envelope): the match on envelope.message(), then the
\* flush when the deadline has passed (due).  order is the order in which the
\* HashSet iterator yields the message set (read by the Read arm only).
Iterate(p, env, order, due) ==
    /\ pc[p] = "running"
    /\ \E r \in {Dispatch(program, Node(p), env, order)} :
         /\ Store(p, r.st)
         /\ IF r.ok
            THEN \E forder \in (IF due THEN Orders(NonEmptyHandlers(r.st)) ELSE {<<>>}) :
                    /\ sent' = r.out \o Flush(r.st, forder)
                    /\ pc' = pc
                    /\ last' = [proc |-> p, event |-> "envelope", envelope |-> env,
                                flushed |-> due, ok |-> TRUE]
            ELSE /\ sent' = <<>>
                 /\ pc' = [pc EXCEPT ![p] = "panicked"]
                 /\ last' = [proc |-> p, event |-> "envelope", envelope |-> env,
                             flushed |-> FALSE, ok |-> FALSE]
    /\ UNCHANGED program

\* recv_timeout returned Err(Timeout): the wait lasted until the deadline, so the
\* flush runs.
IterateTimeout(p) ==
    /\ pc[p] = "running"
    /\ \E forder \in Orders(NonEmptyHandlers(Node(p))) :
         sent' = Flush(Node(p), forder)
    /\ last' = [proc |-> p, event |-> "timeout", envelope |-> NoEnvelope,
                flushed |-> TRUE, ok |-> TRUE]
    /\ UNCHANGED <<program, our_id, all_node_ids, remote_node_handlers, our_neighbors,
                   messages, pc>>

(***************************************************************************)
(* The envelopes the environment of the single-process specifications      *)
(* sends to process P1                                                     *)
(***************************************************************************)
Client == "c1"

\* The senders of node-to-node envelopes.
Peers == {"n2", "n3"}

\* A request of a client carries a msg_id; between nodes it is optional.
ClientMsgIds == {Some(1)}

PeerMsgIds == {Some(2)}

NodeIdLists ==
    {<<"n1", "n2">>,
     <<"n1", "n2", "n3", "n4", "n5", "n6">>}

Topologies ==
    {("n1" :> <<"n2", "n3">>) @@ ("n2" :> <<"n1">>) @@ ("n3" :> <<"n1">>),
     ("n1" :> <<"n2">>) @@ ("n2" :> <<"n1">>),
     ("n2" :> <<"n3">>) @@ ("n3" :> <<"n2">>)}

Lists == SeqsUpTo(Values, MaxLen)

In(src, id, message) == [src |-> src, dest |-> P1, msg_id |-> id, message |-> message]

InitEnvelopes ==
    {In(Client, id, [type |-> "init", node_id |-> P1, node_ids |-> l]) :
        id \in ClientMsgIds, l \in NodeIdLists}

TopologyEnvelopes ==
    {In(Client, id, [type |-> "topology", topology |-> t]) :
        id \in ClientMsgIds, t \in Topologies}

BroadcastEnvelopes ==
    {In(Client, id, [type |-> "broadcast", message |-> v]) :
        id \in ClientMsgIds, v \in Values}

ReadEnvelopes == {In(Client, id, [type |-> "read"]) : id \in ClientMsgIds}

SyncEnvelopes ==
    {In(src, id, [type |-> "sync", messages |-> l]) :
        src \in Peers, id \in PeerMsgIds, l \in Lists}

SyncOkEnvelopes ==
    {In(src, id, [type |-> "sync_ok", messages |-> l]) :
        src \in Peers, id \in PeerMsgIds, l \in Lists}

BroadcastOkEnvelopes == {In(Client, id, [type |-> "broadcast_ok"]) : id \in ClientMsgIds}

\* The variants of Message the match has no arm for.
OtherEnvelopes ==
    {In(Client, id, [type |-> t]) : id \in ClientMsgIds, t \in {"init_ok", "topology_ok"}}
    \cup {In(Client, id, [type |-> "read_ok", messages |-> <<>>]) : id \in ClientMsgIds}

(***************************************************************************)
(* Spec: one process, any envelope in any order                            *)
(***************************************************************************)
\* The clock of the specifications that do not track it.
NoClock ==
    /\ now = 0
    /\ deadline = 0
    /\ start_time = 0
    /\ waited = 0

InitState ==
    /\ our_id = [p \in Procs |-> InitialNode.our_id]
    /\ all_node_ids = [p \in Procs |-> InitialNode.all_node_ids]
    /\ remote_node_handlers = [p \in Procs |-> InitialNode.remote_node_handlers]
    /\ our_neighbors = [p \in Procs |-> InitialNode.our_neighbors]
    /\ messages = [p \in Procs |-> InitialNode.messages]
    /\ pc = [p \in Procs |-> "running"]
    /\ sent = <<>>
    /\ last = [proc |-> "", event |-> "start", envelope |-> NoEnvelope,
               flushed |-> FALSE, ok |-> TRUE]
    /\ net = {}
    /\ broadcasted = [p \in Procs |-> {}]

\* The channel of the specifications that hand envelopes to the loop directly.
NoPipe ==
    /\ stdin_read = <<>>
    /\ rx = <<>>
    /\ handled = <<>>
    /\ reader = "reading"

\* The counter and the record of SpecIds, where they are not tracked.
NoIds ==
    /\ MESSAGE_ID = 0
    /\ built = <<>>

\* The grow-only counter, where it does not run.
NoCounter ==
    /\ locals = <<>>
    /\ seq_kv = <<>>
    /\ wire = {}
    /\ added = <<>>

\* The kafka log, where it does not run.
NoKafka ==
    /\ logs = <<>>
    /\ kafka_last = <<>>
    /\ sends = <<>>
    /\ commits = <<>>

\* The id generator, where it does not run.
NoUuid ==
    /\ uuid = <<>>
    /\ generated = <<>>

\* The flooding broadcast, where it does not run.
NoFlood ==
    /\ actor = <<>>
    /\ buffer = <<>>
    /\ inbound_msg_rx = <<>>
    /\ links = <<>>
    /\ asked = {}
    /\ answered = {}

NoRest == NoIds /\ NoCounter /\ NoKafka /\ NoUuid /\ NoFlood

InitProcs == InitState /\ NoClock /\ NoPipe /\ NoRest

Init ==
    /\ program \in {Multi, Efficient}
    /\ InitProcs

\* The history of Broadcast envelopes handed to the loop of p.
Note(p, env) ==
    broadcasted' = IF env.message.type = "broadcast"
                   THEN [broadcasted EXCEPT ![p] = @ \cup {env.message.message}]
                   ELSE broadcasted

Receive(p, envelopes) ==
    /\ \E env \in envelopes, due \in BOOLEAN : Iterate(p, env, <<>>, due) /\ Note(p, env)
    /\ UNCHANGED <<net, clock, pipe, rest>>

RecvInit == Receive(P1, InitEnvelopes)

RecvTopology == Receive(P1, TopologyEnvelopes)

RecvBroadcast == Receive(P1, BroadcastEnvelopes)

RecvBroadcastOk == Receive(P1, BroadcastOkEnvelopes)

RecvRead ==
    /\ \E env \in ReadEnvelopes, order \in Orders(messages[P1]), due \in BOOLEAN :
          Iterate(P1, env, order, due)
    /\ UNCHANGED <<net, broadcasted, clock, pipe, rest>>

RecvSync == Receive(P1, SyncEnvelopes)

RecvSyncOk == Receive(P1, SyncOkEnvelopes)

RecvOther == Receive(P1, OtherEnvelopes)

Timeout == IterateTimeout(P1) /\ UNCHANGED <<net, broadcasted, clock, pipe, rest>>

Next ==
    \/ RecvInit
    \/ RecvTopology
    \/ RecvBroadcast
    \/ RecvBroadcastOk
    \/ RecvRead
    \/ RecvSync
    \/ RecvSyncOk
    \/ RecvOther
    \/ Timeout

Spec == Init /\ [][Next]_vars

InitStride == program = Efficient /\ InitProcs

SpecStride == InitStride /\ [][Next]_vars

(***************************************************************************)
(* Clusters: the processes of node_ids run the same binary, each started   *)
(* by Init and Topology before the first Broadcast.  Of what a process     *)
(* writes to the other nodes, the network loses some envelopes and keeps   *)
(* the others in flight (net), from where each is delivered any number of  *)
(* times, at any time, in any order.  sent and last are not used.          *)
(***************************************************************************)
FromClient(p, message) ==
    [src |-> Client, dest |-> p, msg_id |-> Some(1), message |-> message]

\* The state of p after Init{p, node_ids} and then Topology{topology}.
Started(prog, p, node_ids, topology) ==
    HandleTopology(prog,
        HandleInit(prog, InitialNode,
            FromClient(p, [type |-> "init", node_id |-> p, node_ids |-> node_ids])).st,
        FromClient(p, [type |-> "topology", topology |-> topology])).st

Members(n) == SubSeq(NodeNames, 1, n)

InitCluster(prog, node_ids, topology) ==
    /\ program = prog
    /\ \E start \in {[p \in Procs |-> IF Contains(node_ids, p)
                                      THEN Started(prog, p, node_ids, topology)
                                      ELSE InitialNode]} :
         /\ our_id = [p \in Procs |-> start[p].our_id]
         /\ all_node_ids = [p \in Procs |-> start[p].all_node_ids]
         /\ remote_node_handlers = [p \in Procs |-> start[p].remote_node_handlers]
         /\ our_neighbors = [p \in Procs |-> start[p].our_neighbors]
         /\ messages = [p \in Procs |-> start[p].messages]
    /\ pc = [p \in Procs |-> IF Contains(node_ids, p) THEN "running" ELSE "absent"]
    /\ sent = <<>>
    /\ last = [proc |-> "", event |-> "start", envelope |-> NoEnvelope,
               flushed |-> FALSE, ok |-> TRUE]
    /\ net = {}
    /\ broadcasted = [p \in Procs |-> {}]
    /\ NoClock
    /\ NoPipe
    /\ NoRest

Running == {p \in Procs : pc[p] # "absent"}

\* The envelopes of a write to stdout that are addressed to a process.
ToNet(out) == {e \in Range(out) : e.dest \in Procs}

\* The network takes the written envelopes: it must keep those of must (when
\* written), and keeps or loses each of the others.
Transmit(written, must) ==
    \E kept \in SUBSET written :
        /\ written \cap must \subseteq kept
        /\ net' = net \cup kept

\* One iteration of the loop of p on env.
ClusterIterate(p, env, due, must) ==
    /\ pc[p] = "running"
    /\ \E r \in {Dispatch(program, Node(p), env, <<>>)} :
         /\ Store(p, r.st)
         /\ IF r.ok
            THEN /\ \E forder \in (IF due THEN Orders(NonEmptyHandlers(r.st)) ELSE {<<>>}) :
                      Transmit(ToNet(r.out \o Flush(r.st, forder)), must)
                 /\ pc' = pc
            ELSE /\ net' = net
                 /\ pc' = [pc EXCEPT ![p] = "panicked"]
    /\ UNCHANGED <<program, sent, last, clock, pipe, rest>>

\* The values clients broadcast in a cluster of n nodes.
ClusterValues(n) == 1..(MaxLoad \div n)

\* A client sends Broadcast{v} to p.
ClientBroadcast(p, v) ==
    /\ v \in ClusterValues(Cardinality(Running))
    /\ \E due \in BOOLEAN :
         ClusterIterate(p, FromClient(p, [type |-> "broadcast", message |-> v]), due, {})
    /\ broadcasted' = [broadcasted EXCEPT ![p] = @ \cup {v}]

\* The network hands e to its destination; e stays in flight (it may come again).
Deliver(e, must) ==
    /\ e \in net
    /\ \E due \in BOOLEAN : ClusterIterate(e.dest, e, due, must)
    /\ UNCHANGED broadcasted

\* recv_timeout of p ran into the deadline: the flush.
ClusterTimeout(p, must) ==
    /\ pc[p] = "running"
    /\ \E forder \in Orders(NonEmptyHandlers(Node(p))) :
         Transmit(ToNet(Flush(Node(p), forder)), must)
    /\ UNCHANGED <<program, our_id, all_node_ids, remote_node_handlers, our_neighbors,
                   messages, pc, sent, last, broadcasted, clock, pipe, rest>>

BroadcastSome == \E p \in Running, v \in 1..MaxLoad : ClientBroadcast(p, v)

DeliverSome == \E e \in net : Deliver(e, {})

TimeoutSome == \E p \in Running : ClusterTimeout(p, {})

NextCluster ==
    \/ BroadcastSome
    \/ DeliverSome
    \/ TimeoutSome

\* Every buffer content: values in the order of their first observation.
DistinctLists == UNION {Orders(S) : S \in SUBSET (1..(MaxLoad \div 2))} \ {<<>>}

Syncs ==
    {Envelope_new(a, b, None, [type |-> "sync", messages |-> l]) :
        a \in Procs, b \in Procs, l \in DistinctLists}

SyncOks ==
    {Envelope_new(a, b, None, [type |-> "sync_ok", messages |-> l]) :
        a \in Procs, b \in Procs, l \in DistinctLists}

\* What may travel from a to b.
Link(a, b) == {e \in Syncs \cup SyncOks : e.src = a /\ e.dest = b}

Links == {l \in Procs \X Procs : l[1] # l[2]}

\* Flushes keep recurring, and the network does not lose all of what a keeps
\* sending to b: the Syncs of the flushes of a, and its answers to what b
\* sent; what is in flight from b to a is delivered.
ClusterFairness ==
    /\ \A l \in Links : WF_vars(ClusterTimeout(l[1], Link(l[1], l[2])))
    /\ \A l \in Links : WF_vars(\E e \in Link(l[2], l[1]) : Deliver(e, Link(l[1], l[2])))

\* broadcast-multi-node on a line of n nodes: connected and symmetric.
LineTopology(n) ==
    [p \in Range(Members(n)) |->
        LET i == CHOOSE k \in 1..n : NodeNames[k] = p
        IN  SelectSeq(<<i - 1, i + 1>>, LAMBDA k : k \in 1..n)]

LineOf(n) ==
    [p \in Range(Members(n)) |->
        [j \in DOMAIN LineTopology(n)[p] |-> NodeNames[LineTopology(n)[p][j]]]]

InitClusterMulti == \E n \in 1..MaxNodes : InitCluster(Multi, Members(n), LineOf(n))

ClusterMulti == InitClusterMulti /\ [][NextCluster]_vars /\ ClusterFairness

\* broadcast-efficient-part-2 in a cluster of n nodes.
InitClusterStride == \E n \in 1..MaxNodes : InitCluster(Efficient, Members(n), EmptyMap)

ClusterStride == InitClusterStride /\ [][NextCluster]_vars /\ ClusterFairness

AllBroadcast == UNION {broadcasted[p] : p \in Procs}

(***************************************************************************)
(* Properties                                                              *)
(***************************************************************************)
\* What the last iteration processed.
LastType == IF last.event = "envelope" THEN last.envelope.message.type ELSE last.event

\* The positions in sent of the replies of one type.
Replies(type) == {i \in DOMAIN sent : sent[i].message.type = type}

\* The outbox process P1 keeps for n.
Outbox(n) == remote_node_handlers[P1][n].unacknowledged_messages

\* What Read at p returns, for every order of the HashSet iterator.
ReadsAt(p) ==
    {Range(HandleRead(Node(p), FromClient(p, [type |-> "read"]), order).out[1].message.messages) :
        order \in Orders(messages[p])}

\* C1: in a cluster of broadcast-multi-node processes on a connected, symmetric
\* topology, every node started by Init and Topology, with recurring flushes
\* and a network that does not lose everything a node keeps re-sending, from
\* some point on every Read at every node returns the set of all the values
\* that were broadcast.
C1_ReadsConverge == <>[](\A p \in Running : ReadsAt(p) = {AllBroadcast})

C1_Witness ==
    /\ program = Multi
    /\ Running = {"n1", "n2", "n3"}
    /\ broadcasted["n1"] # {}
    /\ broadcasted["n2"] = {}
    /\ broadcasted["n3"] = {}
    /\ \A p \in Running : ReadsAt(p) = {AllBroadcast}

\* C2: in a cluster of broadcast-efficient-part-2 processes of any size, all
\* started by Init with the same node_ids and then Topology, with recurring
\* flushes and eventual delivery, every broadcast value is eventually in every
\* node's message set.
C2_StrideConvergence == <>[](\A p \in Running : AllBroadcast \subseteq messages[p])

\* C3: the message set of a process only grows: no iteration of the loop, on
\* any envelope or on a timeout, takes a value out of it.
C3_GrowOnly == [][\A p \in Procs : messages[p] \subseteq messages'[p]]_vars

C3_Witness ==
    /\ LastType = "init"
    /\ last.ok
    /\ messages[P1] = Values

\* C4: a Read is answered with exactly one ReadOk, sent to the source of the
\* Read, that lists the message set of the node, each value once; it contains
\* every value of a Broadcast the node processed before.
C4_ReadYourWrites ==
    LastType = "read" =>
        /\ last.ok
        /\ Cardinality(Replies("read_ok")) = 1
        /\ \A i \in Replies("read_ok") :
              /\ sent[i].dest = last.envelope.src
              /\ Range(sent[i].message.messages) = messages[last.proc]
              /\ Len(sent[i].message.messages) = Cardinality(messages[last.proc])
              /\ broadcasted[last.proc] \subseteq Range(sent[i].message.messages)

C4_Witness ==
    /\ LastType = "read"
    /\ broadcasted[P1] = Values
    /\ Replies("read_ok") = {1}
    /\ Len(sent[1].message.messages) = MaxValue

\* C5: every Broadcast a node processes is answered with exactly one
\* BroadcastOk, sent to the source of the Broadcast.
C5_BroadcastAnswered ==
    LastType = "broadcast" =>
        /\ last.ok
        /\ Cardinality(Replies("broadcast_ok")) = 1
        /\ \A i \in Replies("broadcast_ok") : sent[i].dest = last.envelope.src

\* The values a Broadcast or Sync envelope hands to observe, as a sequence.
Observed(env) ==
    IF env.message.type = "broadcast" THEN <<env.message.message>>
    ELSE IF env.message.type = "sync" THEN env.message.messages
    ELSE <<>>

\* C6: when a Broadcast or Sync is processed, a value the node already has
\* stays in the message set and its number of entries in every outbox stays
\* the same, however often the envelope names it; a value the node sees for
\* the first time is entered once into the outbox of every neighbor, however
\* often the envelope names it; if the envelope names known values only, the
\* message set and all outboxes are unchanged.
C6_ObserveIdempotent ==
    [][(last'.event = "envelope" /\ last'.envelope.message.type \in {"broadcast", "sync"}) =>
        /\ last'.ok
        /\ DOMAIN remote_node_handlers'[P1] = DOMAIN remote_node_handlers[P1]
        /\ \A v \in Values :
              /\ v \in messages[P1] => v \in messages'[P1]
              /\ \A n \in DOMAIN remote_node_handlers[P1] :
                    Count(remote_node_handlers'[P1][n].unacknowledged_messages, v)
                      = Count(Outbox(n), v)
                        + (IF /\ v \notin messages[P1]
                              /\ Contains(Observed(last'.envelope), v)
                              /\ Contains(our_neighbors[P1], n)
                           THEN 1 ELSE 0)
        /\ Range(Observed(last'.envelope)) \subseteq messages[P1] =>
              /\ messages'[P1] = messages[P1]
              /\ remote_node_handlers'[P1] = remote_node_handlers[P1]
    ]_vars

C6_Witness ==
    /\ LastType = "sync"
    /\ last.envelope.message.messages = <<1, 1>>
    /\ our_neighbors[P1] = <<"n2">>
    /\ Outbox("n2") = <<1>>
    /\ messages[P1] = {1}

\* C7: when a SyncOk from a neighbor is processed, the node does not fail,
\* the outbox of that neighbor holds none of the values the SyncOk names and
\* still holds every other value it held, and the other outboxes and the
\* message set are unchanged; a SyncOk that names no value of the outbox
\* changes nothing.
C7_AckCorrect ==
    [][(/\ last'.event = "envelope"
        /\ last'.envelope.message.type = "sync_ok"
        /\ Contains(our_neighbors[P1], last'.envelope.src)) =>
        /\ last'.ok
        /\ messages'[P1] = messages[P1]
        /\ DOMAIN remote_node_handlers'[P1] = DOMAIN remote_node_handlers[P1]
        /\ \A n \in DOMAIN remote_node_handlers[P1] \ {last'.envelope.src} :
              remote_node_handlers'[P1][n] = remote_node_handlers[P1][n]
        /\ \A v \in Values :
              Count(remote_node_handlers'[P1][last'.envelope.src].unacknowledged_messages, v)
                = IF Contains(last'.envelope.message.messages, v)
                  THEN 0
                  ELSE Count(Outbox(last'.envelope.src), v)
        /\ Range(last'.envelope.message.messages) \cap Range(Outbox(last'.envelope.src)) = {} =>
              remote_node_handlers'[P1] = remote_node_handlers[P1]
    ]_vars

C7_Witness ==
    /\ LastType = "sync_ok"
    /\ last.ok
    /\ last.envelope.src = "n2"
    /\ last.envelope.message.messages = <<1>>
    /\ our_neighbors[P1] = <<"n2">>
    /\ messages[P1] = {1, 2}
    /\ Outbox("n2") = <<2>>

\* C8: when a Sync from a neighbor brings a value the node did not have, the
\* value is not entered into the outbox of that neighbor.
C8_NoSelfLoop ==
    [][(/\ last'.event = "envelope"
        /\ last'.ok
        /\ last'.envelope.message.type = "sync"
        /\ Contains(our_neighbors[P1], last'.envelope.src)) =>
        \A v \in Range(last'.envelope.message.messages) \ messages[P1] :
            ~Contains(remote_node_handlers'[P1][last'.envelope.src].unacknowledged_messages, v)
    ]_vars

\* C9: a Sync is answered with exactly one SyncOk, sent to the source of the
\* Sync, whose list is the list of the Sync as it came: same order, duplicates
\* and values the node already had included.
C9_SyncEchoed ==
    LastType = "sync" =>
        /\ last.ok
        /\ Cardinality(Replies("sync_ok")) = 1
        /\ \A i \in Replies("sync_ok") :
              /\ sent[i].dest = last.envelope.src
              /\ sent[i].message.messages = last.envelope.message.messages

C9_Witness ==
    /\ LastType = "sync"
    /\ Replies("sync_ok") = {1}
    /\ sent[1].message.messages = <<2, 2>>
    /\ broadcasted[P1] = {2}
    /\ messages[P1] = {2}

\* C10: a value in the outbox of a neighbor is still there after every
\* iteration of the loop, except one that processes a SyncOk from that
\* neighbor naming the value.
C10_OutboxKept ==
    [][\A n \in DOMAIN remote_node_handlers[P1] : \A v \in Range(Outbox(n)) :
          ~(/\ last'.event = "envelope"
            /\ last'.envelope.message.type = "sync_ok"
            /\ last'.envelope.src = n
            /\ Contains(last'.envelope.message.messages, v))
          => /\ n \in DOMAIN remote_node_handlers'[P1]
             /\ Contains(remote_node_handlers'[P1][n].unacknowledged_messages, v)
    ]_vars

\* The positions in sent of the Syncs addressed to n.
SyncsTo(n) == {i \in DOMAIN sent : sent[i].message.type = "sync" /\ sent[i].dest = n}

\* C11: an iteration that flushes sends, to every node whose outbox is not
\* empty, exactly one Sync, from this node, listing the whole outbox; it sends
\* no Sync to a node whose outbox is empty or that has none.
C11_FlushSends ==
    (last.flushed /\ last.ok) =>
        \A n \in DOMAIN remote_node_handlers[P1] \cup Range(our_neighbors[P1]) :
            IF n \in DOMAIN remote_node_handlers[P1] /\ Outbox(n) # <<>>
            THEN /\ Cardinality(SyncsTo(n)) = 1
                 /\ \A i \in SyncsTo(n) :
                       /\ sent[i].src = our_id[P1]
                       /\ sent[i].message.messages = Outbox(n)
            ELSE SyncsTo(n) = {}

C11_Witness ==
    /\ last.event = "timeout"
    /\ our_neighbors[P1] = <<"n2", "n3">>
    /\ "n3" \in DOMAIN remote_node_handlers[P1]
    /\ Outbox("n2") = <<1, 2>>
    /\ Outbox("n3") = <<>>
    /\ Len(sent) = 1
    /\ sent[1].dest = "n2"
    /\ sent[1].message.messages = <<1, 2>>

\* C12: a flush on a timeout changes no outbox and not the message set; and a
\* value that was in the outbox of n at one flush is in the Sync to n of the
\* flush of the next iteration, unless that iteration processed a SyncOk from
\* n naming the value.
C12_RetryUntilAcked ==
    [][/\ last'.event = "timeout" =>
            /\ messages'[P1] = messages[P1]
            /\ remote_node_handlers'[P1] = remote_node_handlers[P1]
       /\ (last.flushed /\ last.ok /\ last'.flushed /\ last'.ok) =>
            \A n \in DOMAIN remote_node_handlers[P1] : \A v \in Range(Outbox(n)) :
                ~(/\ last'.event = "envelope"
                  /\ last'.envelope.message.type = "sync_ok"
                  /\ last'.envelope.src = n
                  /\ Contains(last'.envelope.message.messages, v))
                => \E i \in DOMAIN sent' :
                      /\ sent'[i].message.type = "sync"
                      /\ sent'[i].dest = n
                      /\ Contains(sent'[i].message.messages, v)
    ]_vars

\* C13: when a SyncOk from a neighbor is processed, the outbox of that
\* neighbor afterwards is the outbox before without the values the SyncOk
\* names: what was entered after the acknowledged Sync was sent, and is not
\* named, is still pending, in the order it was entered.
C13_AckByContent ==
    [][(/\ last'.event = "envelope"
        /\ last'.envelope.message.type = "sync_ok"
        /\ Contains(our_neighbors[P1], last'.envelope.src)) =>
        /\ last'.ok
        /\ \A w \in Range(Outbox(last'.envelope.src)) \ Range(last'.envelope.message.messages) :
              Contains(remote_node_handlers'[P1][last'.envelope.src].unacknowledged_messages, w)
        /\ remote_node_handlers'[P1][last'.envelope.src].unacknowledged_messages
             = SelectSeq(Outbox(last'.envelope.src),
                         LAMBDA w : w \notin Range(last'.envelope.message.messages))
    ]_vars

C13_Witness ==
    /\ LastType = "sync_ok"
    /\ last.ok
    /\ last.envelope.src = "n2"
    /\ last.envelope.message.messages = <<2>>
    /\ our_neighbors[P1] = <<"n2">>
    /\ broadcasted[P1] = {1, 2}
    /\ Outbox("n2") = <<1>>

\* The variants of Message the match has no arm for.
Unhandled == {"init_ok", "topology_ok", "read_ok"}

\* C14: an envelope of a variant the node has no handler for leaves the state
\* of the node as it was and the loop running.
C14_UnexpectedDropped ==
    [][(last'.event = "envelope" /\ last'.envelope.message.type \in Unhandled) =>
        /\ last'.ok
        /\ pc'[P1] = "running"
        /\ Node(P1)' = Node(P1)
    ]_vars

\* C15: after any sequence of envelopes of the variants the node handles, the
\* loop is running, and a Broadcast would be answered.
C15_AlwaysLive ==
    LastType \notin Unhandled =>
        /\ pc[P1] = "running"
        /\ \A env \in BroadcastEnvelopes : HandleBroadcast(Node(P1), env).ok

\* C16: every Topology a node processes is answered with exactly one
\* TopologyOk, sent to the source of the Topology.
C16_TopologyAnswered ==
    LastType = "topology" =>
        /\ last.ok
        /\ Cardinality(Replies("topology_ok")) = 1
        /\ \A i \in Replies("topology_ok") : sent[i].dest = last.envelope.src

(***************************************************************************)
(* SpecTopology: one broadcast-efficient-part-2 process, Init with a node  *)
(* list of any length up to MaxList and the node at any position of it.    *)
(***************************************************************************)
StrideInitEnvelopes ==
    {[src |-> Client, dest |-> NodeNames[p], msg_id |-> Some(1),
      message |-> [type |-> "init", node_id |-> NodeNames[p],
                   node_ids |-> SubSeq(NodeNames, 1, n)]] :
        n \in 1..MaxList, p \in 1..MaxList}

RecvStrideInit == Receive(P1, StrideInitEnvelopes)

NextTopology ==
    \/ RecvStrideInit
    \/ RecvTopology

SpecTopology == InitStride /\ [][NextTopology]_vars

\* The 0-based positions of a list of n entries that a node at position p is to
\* have as neighbors.
StridePositions(n, p) == {i \in 0..(n - 1) : i % STRIDE = (p + 1) % STRIDE}

\* The j-th smallest element of a set of numbers.
Nth(S, j) == CHOOSE i \in S : Cardinality({k \in S : k < i}) = j - 1

\* The 0-based position of the node in its node list (a list without repetition).
OurPosition == (CHOOSE i \in DOMAIN all_node_ids[P1] : all_node_ids[P1][i] = our_id[P1]) - 1

\* C17: after Topology, a node at position p of its node list has as neighbor
\* list the nodes at the positions i with i mod STRIDE = (p + 1) mod STRIDE, in
\* ascending order of position; the node itself is not in it.
C17_StrideResult ==
    (LastType = "topology" /\ Contains(all_node_ids[P1], our_id[P1])) =>
        /\ last.ok
        /\ Len(our_neighbors[P1])
             = Cardinality(StridePositions(Len(all_node_ids[P1]), OurPosition))
        /\ \A j \in DOMAIN our_neighbors[P1] :
              our_neighbors[P1][j]
                = all_node_ids[P1][Nth(StridePositions(Len(all_node_ids[P1]), OurPosition), j) + 1]
        /\ ~Contains(our_neighbors[P1], our_id[P1])

C17_Witness ==
    /\ LastType = "topology"
    /\ STRIDE = 4
    /\ Len(all_node_ids[P1]) = 8
    /\ our_id[P1] = "n1"
    /\ our_neighbors[P1] = <<"n2", "n6">>

(***************************************************************************)
(* SpecNoTopology: one process that is sent no Topology.                   *)
(***************************************************************************)
NextNoTopology ==
    \/ RecvInit
    \/ RecvBroadcast
    \/ RecvBroadcastOk
    \/ RecvRead
    \/ RecvSync
    \/ RecvSyncOk
    \/ RecvOther
    \/ Timeout

SpecNoTopology == Init /\ [][NextNoTopology]_vars

\* The reply type of a request type.
OkOf(type) == IF type = "broadcast" THEN "broadcast_ok" ELSE "sync_ok"

\* C18: a node that has processed no Topology processes a Broadcast or Sync
\* without failing: the values are in the message set afterwards, no outbox
\* changes and all are empty, and the one reply (BroadcastOk, SyncOk) goes to
\* the source.
C18_NoTopologyNoFanOut ==
    [][(last'.event = "envelope" /\ last'.envelope.message.type \in {"broadcast", "sync"}) =>
        /\ last'.ok
        /\ pc'[P1] = "running"
        /\ messages'[P1] = messages[P1] \cup Range(Observed(last'.envelope))
        /\ remote_node_handlers'[P1] = remote_node_handlers[P1]
        /\ \A n \in DOMAIN remote_node_handlers'[P1] :
              remote_node_handlers'[P1][n].unacknowledged_messages = <<>>
        /\ Cardinality({i \in DOMAIN sent' :
                          /\ sent'[i].message.type = OkOf(last'.envelope.message.type)
                          /\ sent'[i].dest = last'.envelope.src}) = 1
    ]_vars

C18_Witness ==
    /\ LastType = "sync"
    /\ last.ok
    /\ our_id[P1] = "n1"
    /\ "n2" \in DOMAIN remote_node_handlers[P1]
    /\ Outbox("n2") = <<>>
    /\ broadcasted[P1] = {1}
    /\ messages[P1] = {1, 2}

(***************************************************************************)
(* ClusterLate: a broadcast-multi-node cluster on a line whose processes   *)
(* have processed Init; the Topology of each comes later, once, and        *)
(* Broadcasts may come before it.                                          *)
(***************************************************************************)
\* The state of p after Init{p, node_ids}.
Joined(prog, p, node_ids) ==
    HandleInit(prog, InitialNode,
        FromClient(p, [type |-> "init", node_id |-> p, node_ids |-> node_ids])).st

InitClusterLate ==
    \E n \in 2..MaxNodes :
        /\ program = Multi
        /\ our_id = [p \in Procs |-> IF Contains(Members(n), p) THEN p ELSE ""]
        /\ all_node_ids = [p \in Procs |-> <<>>]
        /\ remote_node_handlers =
              [p \in Procs |-> IF Contains(Members(n), p)
                               THEN Joined(Multi, p, Members(n)).remote_node_handlers
                               ELSE EmptyMap]
        /\ our_neighbors = [p \in Procs |-> <<>>]
        /\ messages = [p \in Procs |-> {}]
        /\ pc = [p \in Procs |-> IF Contains(Members(n), p) THEN "running" ELSE "absent"]
        /\ sent = <<>>
        /\ last = [proc |-> "", event |-> "start", envelope |-> NoEnvelope,
                   flushed |-> FALSE, ok |-> TRUE]
        /\ net = {}
        /\ broadcasted = [p \in Procs |-> {}]
        /\ NoClock
        /\ NoPipe
        /\ NoRest

\* The client sends p its Topology (a line has no node without neighbors, so
\* an empty neighbor list says that Topology has not been processed).
ClientTopology(p) ==
    /\ pc[p] = "running"
    /\ our_neighbors[p] = <<>>
    /\ \E due \in BOOLEAN :
         ClusterIterate(p, FromClient(p, [type |-> "topology",
                                          topology |-> LineOf(Cardinality(Running))]),
                        due, {})
    /\ UNCHANGED broadcasted

TopologySome == \E p \in Running : ClientTopology(p)

NextLate ==
    \/ TopologySome
    \/ BroadcastSome
    \/ DeliverSome
    \/ TimeoutSome

ClusterLate ==
    /\ InitClusterLate
    /\ [][NextLate]_vars
    /\ ClusterFairness
    /\ \A p \in Procs : WF_vars(ClientTopology(p))

\* C19: once every node has processed Topology, every value that was
\* broadcast, also one broadcast to a node before its Topology, comes to be in
\* the message set of every node.
C19_LateTopologyConverges ==
    (\A p \in Running : our_neighbors[p] # <<>>)
        ~> (\A p \in Running : AllBroadcast \subseteq messages[p])

(***************************************************************************)
(* SpecClock: one process with the wall clock.  Time is in ms; between two *)
(* readings of Instant::now() it advances by one of Delays.                *)
(***************************************************************************)
Delays == {0, 100, 250, 600}

StartTimes == {0, 100}

\* Variant: the loop always waits for a whole interval.
should_wait_whole_interval == SYNC_INTERVAL

\* deadline - Instant::now(): the subtraction of Instants saturates at zero.
should_wait_for_at_most == IF now >= deadline THEN 0 ELSE deadline - now

\* Variant: the next deadline is measured from the time of the flush.
NextDeadlineFromNow(previous, at) == at + SYNC_INTERVAL

\* deadline += SYNC_INTERVAL, in a flush that runs at time at.
NextDeadline(previous, at) == previous + SYNC_INTERVAL

\* The end of an iteration whose check `Instant::now() >= deadline` read at.
Tick(at) ==
    /\ at <= MaxTime
    /\ now' = at
    /\ deadline' = IF last'.flushed THEN NextDeadline(deadline, at) ELSE deadline
    /\ start_time' = start_time

ClockEnvelopes ==
    {In(Client, Some(1), [type |-> "init", node_id |-> P1, node_ids |-> <<"n1", "n2">>]),
     In(Client, Some(1), [type |-> "topology",
                          topology |-> ("n1" :> <<"n2">>) @@ ("n2" :> <<"n1">>)]),
     In(Client, Some(1), [type |-> "broadcast", message |-> 1]),
     In("n2", Some(2), [type |-> "sync", messages |-> <<2>>]),
     In("n2", Some(2), [type |-> "sync_ok", messages |-> <<1, 2>>])}

\* recv_timeout returned Ok(envelope) after blocking for w ms, within the wait it
\* was given; the handler ran; the deadline check read the clock d ms after the
\* last reading.
ClockRecv ==
    /\ \E env \in ClockEnvelopes, d \in Delays :
          /\ Iterate(P1, env, <<>>, now + d >= deadline)
          /\ Note(P1, env)
          /\ Tick(now + d)
          /\ waited' \in {w \in Delays : w <= d /\ w <= should_wait_for_at_most}
    /\ UNCHANGED <<net, pipe, rest>>

\* recv_timeout waited should_wait_for_at_most and returned Err(Timeout); the
\* deadline check read the clock d ms after that.
ClockTimeout ==
    /\ \E d \in Delays :
          /\ IterateTimeout(P1)
          /\ Tick(now + should_wait_for_at_most + d)
          /\ waited' = should_wait_for_at_most
    /\ UNCHANGED <<net, broadcasted, pipe, rest>>

\* recv_timeout returned Err(Disconnected), at once: stdin is closed and the
\* queue is empty, now and in every later iteration.
IterateDisconnected(p, due) ==
    /\ pc[p] \in {"running", "disconnected"}
    /\ pc' = [pc EXCEPT ![p] = "disconnected"]
    /\ \E forder \in (IF due THEN Orders(NonEmptyHandlers(Node(p))) ELSE {<<>>}) :
         sent' = Flush(Node(p), forder)
    /\ last' = [proc |-> p, event |-> "disconnected", envelope |-> NoEnvelope,
                flushed |-> due, ok |-> TRUE]
    /\ UNCHANGED <<program, our_id, all_node_ids, remote_node_handlers, our_neighbors,
                   messages>>

ClockDisconnected ==
    /\ \E d \in Delays :
          /\ IterateDisconnected(P1, now + d >= deadline)
          /\ Tick(now + d)
          /\ waited' = 0
    /\ UNCHANGED <<net, broadcasted, pipe, rest>>

\* let mut deadline = Instant::now() + SYNC_INTERVAL
InitClock ==
    /\ program \in {Multi, Efficient}
    /\ InitState
    /\ NoPipe
    /\ NoRest
    /\ start_time \in StartTimes
    /\ now = start_time
    /\ deadline = start_time + SYNC_INTERVAL
    /\ waited = 0

NextClock ==
    \/ ClockRecv
    \/ ClockTimeout
    \/ ClockDisconnected

SpecClock == InitClock /\ [][NextClock]_vars

\* C20: the first deadline is the start time plus the interval; an iteration
\* flushes only when the clock it read is at or past the deadline; a flush
\* moves the deadline on by exactly one interval, however late it ran, and
\* nothing else moves it: every deadline is the start time plus a positive
\* multiple of the interval.
C20_DeadlineArithmetic ==
    /\ [](last.event = "start" => deadline = start_time + SYNC_INTERVAL)
    /\ [](\E k \in 1..(MaxTime \div SYNC_INTERVAL + 1) :
             deadline = start_time + k * SYNC_INTERVAL)
    /\ [][IF last'.flushed
          THEN now' >= deadline /\ deadline' = deadline + SYNC_INTERVAL
          ELSE deadline' = deadline]_vars

C20_Witness ==
    /\ last.flushed
    /\ start_time = 100
    /\ deadline = start_time + 3 * SYNC_INTERVAL
    /\ now > deadline
    /\ (now - start_time) % SYNC_INTERVAL # 0

\* C21: every iteration of the loop processes exactly one event: an inbound
\* envelope or a flush, not both and not neither.
C21_OneEventPerIteration ==
    last.event # "start" => ((last.event = "envelope") # last.flushed)

\* The requests a node answers, and the reply to each.
Requests == {"init", "topology", "broadcast", "read", "sync"}

ReplyTo(type) ==
    CASE type = "init" -> "init_ok"
      [] type = "topology" -> "topology_ok"
      [] type = "broadcast" -> "broadcast_ok"
      [] type = "read" -> "read_ok"
      [] type = "sync" -> "sync_ok"

\* Request envelopes with and without a msg_id.
SomeRequests ==
    BroadcastEnvelopes \cup SyncEnvelopes
    \cup {[src |-> a, dest |-> b, message |-> [type |-> "read"]] :
            a \in {Client, "n2"}, b \in {P1, "n3"}}

\* C22: Envelope::reply swaps src and dest of the request and takes its msg_id
\* (None when it has none) as in_reply_to; the reply a node sends to a request
\* is built this way, and whatever else the iteration sends is a Sync.
C22_ReplyCorrelated ==
    /\ \A env \in SomeRequests :
          /\ reply(env, [type |-> "read_ok"]).src = env.dest
          /\ reply(env, [type |-> "read_ok"]).dest = env.src
          /\ reply(env, [type |-> "read_ok"]).in_reply_to
               = (IF "msg_id" \in DOMAIN env THEN env.msg_id ELSE None)
    /\ (LastType \in Requests /\ last.ok) =>
          /\ Len(sent) >= 1
          /\ sent[1].message.type = ReplyTo(LastType)
          /\ sent[1].src = last.envelope.dest
          /\ sent[1].dest = last.envelope.src
          /\ sent[1].in_reply_to = last.envelope.msg_id
          /\ \A i \in 2..Len(sent) : sent[i].message.type = "sync"

C22_Witness ==
    /\ LastType = "sync"
    /\ last.ok
    /\ our_id[P1] = ""
    /\ Len(sent) = 1
    /\ sent[1].src = "n1"
    /\ sent[1].dest = "n2"
    /\ sent[1].in_reply_to = Some(2)

\* C23: an iteration that processes a SyncOk sends no envelope but the Syncs
\* of its flush, if it flushes, and leaves the message set, the neighbor
\* list, the identity of the node and every outbox but the one of the source
\* of the SyncOk as they were.
C23_SyncOkFrame ==
    [][(last'.event = "envelope" /\ last'.envelope.message.type = "sync_ok") =>
        /\ messages'[P1] = messages[P1]
        /\ our_neighbors'[P1] = our_neighbors[P1]
        /\ our_id'[P1] = our_id[P1]
        /\ all_node_ids'[P1] = all_node_ids[P1]
        /\ DOMAIN remote_node_handlers'[P1] = DOMAIN remote_node_handlers[P1]
        /\ \A n \in DOMAIN remote_node_handlers[P1] \ {last'.envelope.src} :
              remote_node_handlers'[P1][n] = remote_node_handlers[P1][n]
        /\ \A i \in DOMAIN sent' : last'.flushed /\ sent'[i].message.type = "sync"
    ]_vars

C23_Witness ==
    /\ LastType = "sync_ok"
    /\ last.ok
    /\ ~last.flushed
    /\ last.envelope.src = "n2"
    /\ our_neighbors[P1] = <<"n2", "n3">>
    /\ "n3" \in DOMAIN remote_node_handlers[P1]
    /\ Outbox("n2") = <<>>
    /\ Outbox("n3") = <<1>>
    /\ sent = <<>>

(***************************************************************************)
(* SpecRepeated: one process whose Topology names a neighbor twice.        *)
(***************************************************************************)
RepeatedTopologyEnvelopes ==
    {In(Client, Some(1), [type |-> "topology",
                          topology |-> ("n1" :> <<"n2", "n2">>) @@ ("n2" :> <<"n1">>)])}

RecvRepeatedTopology == Receive(P1, RepeatedTopologyEnvelopes)

NextRepeated ==
    \/ RecvInit
    \/ RecvRepeatedTopology
    \/ RecvBroadcast
    \/ RecvSync
    \/ RecvSyncOk
    \/ Timeout

SpecRepeated == Init /\ [][NextRepeated]_vars

\* C24: no outbox holds a value more than once, and so no outbox is longer
\* than the message set is large.
C24_NoDuplicateEntries ==
    \A n \in DOMAIN remote_node_handlers[P1] :
        /\ \A v \in Values : Count(Outbox(n), v) <= 1
        /\ Len(Outbox(n)) <= Cardinality(messages[P1])

(***************************************************************************)
(* SpecQueue: one process with its two threads: read_stdin, which decodes  *)
(* the lines of stdin and sends them into the channel, and the loop of     *)
(* main, which receives from it.                                           *)
(***************************************************************************)
QueueEnvelopes ==
    {In(Client, Some(1), [type |-> "init", node_id |-> P1, node_ids |-> <<"n1", "n2">>]),
     In(Client, Some(1), [type |-> "topology",
                          topology |-> ("n1" :> <<"n2">>) @@ ("n2" :> <<"n1">>)]),
     In(Client, Some(1), [type |-> "broadcast", message |-> 1]),
     In("n2", Some(2), [type |-> "sync", messages |-> <<2>>])}

\* read_stdin: one line decoded and sent into the channel.
ReadLine ==
    /\ reader = "reading"
    /\ pc[P1] # "panicked"
    /\ Len(stdin_read) < MaxLines
    /\ \E env \in QueueEnvelopes :
         /\ stdin_read' = Append(stdin_read, env)
         /\ rx' = Append(rx, env)
    /\ UNCHANGED <<program, our_id, all_node_ids, remote_node_handlers, our_neighbors,
                   messages, pc, sent, last, net, broadcasted, clock, handled, reader, rest>>

\* read_stdin returns at the end of stdin (or panics on a line it cannot
\* decode): the sender is dropped.
ReaderEnds ==
    /\ reader = "reading"
    /\ pc[P1] # "panicked"
    /\ reader' = "ended"
    /\ UNCHANGED <<program, our_id, all_node_ids, remote_node_handlers, our_neighbors,
                   messages, pc, sent, last, net, broadcasted, clock, stdin_read, rx,
                   handled, rest>>

\* Variant: the channel hands out the newest envelope first.
recv_newest(channel) ==
    [envelope |-> channel[Len(channel)], rest |-> SubSeq(channel, 1, Len(channel) - 1)]

\* rx.recv_timeout on a channel that is not empty: the oldest envelope.
recv(channel) == [envelope |-> Head(channel), rest |-> Tail(channel)]

LoopRecv ==
    /\ rx # <<>>
    /\ \E r \in {recv(rx)}, due \in BOOLEAN :
         /\ Iterate(P1, r.envelope, <<>>, due)
         /\ Note(P1, r.envelope)
         /\ rx' = r.rest
         /\ handled' = Append(handled, r.envelope)
    /\ UNCHANGED <<net, clock, stdin_read, reader, rest>>

\* The channel stayed empty until the deadline.
LoopTimeout ==
    /\ rx = <<>>
    /\ reader = "reading"
    /\ IterateTimeout(P1)
    /\ UNCHANGED <<net, broadcasted, clock, pipe, rest>>

\* The channel is empty and its sender dropped.
LoopDisconnected ==
    /\ rx = <<>>
    /\ reader = "ended"
    /\ \E due \in BOOLEAN : IterateDisconnected(P1, due)
    /\ UNCHANGED <<net, broadcasted, clock, pipe, rest>>

NextQueue ==
    \/ ReadLine
    \/ ReaderEnds
    \/ LoopRecv
    \/ LoopTimeout
    \/ LoopDisconnected

SpecQueue == Init /\ [][NextQueue]_vars

\* C25: what read_stdin decoded is, in order, what the loop has handled
\* followed by what waits in the channel; a step of read_stdin appends one
\* envelope to the channel and touches nothing of the node; the loop handles
\* the oldest waiting envelope; the state of the node changes only in a step
\* of the loop that handles an envelope; and a flush in such a step comes
\* after the handler: its Syncs follow the reply and list the buffers as the
\* handler left them.
C25_SingleOwner ==
    /\ [](stdin_read = handled \o rx)
    /\ [][stdin_read' # stdin_read =>
            /\ Node(P1)' = Node(P1)
            /\ UNCHANGED <<pc, sent, last, handled>>
            /\ Len(rx') = Len(rx) + 1
            /\ SubSeq(rx', 1, Len(rx)) = rx]_vars
    /\ [][handled' # handled =>
            /\ rx # <<>>
            /\ handled' = Append(handled, Head(rx))
            /\ rx' = Tail(rx)
            /\ last'.event = "envelope"
            /\ last'.envelope = Head(rx)]_vars
    /\ [][Node(P1)' # Node(P1) => handled' # handled]_vars
    /\ [](\A i \in DOMAIN sent :
            sent[i].message.type = "sync" =>
                /\ sent[i].message.messages = Outbox(sent[i].dest)
                /\ \A j \in DOMAIN sent : j > i => sent[j].message.type = "sync")

C25_Witness ==
    /\ Len(handled) = 3
    /\ Len(rx) = 1
    /\ handled[1].message.type = "init"
    /\ handled[2].message.type = "topology"
    /\ handled[3].message.type = "broadcast"
    /\ rx[1].message.type = "sync"
    /\ last.envelope = handled[3]
    /\ last.flushed
    /\ \E i \in DOMAIN sent : sent[i].message.type = "sync"

\* C26: recv_timeout never blocks longer than the time left until the deadline
\* as it stood when the iteration began, not at all when that deadline has
\* passed, and never longer than SYNC_INTERVAL; an iteration that comes to its
\* end flushes exactly when the clock it reads there has reached the deadline;
\* so an iteration that begins after the deadline flushes, whatever it received.
C26_BoundedWait ==
    /\ [](waited >= 0 /\ waited <= SYNC_INTERVAL)
    /\ [][/\ waited' <= (IF now >= deadline THEN 0 ELSE deadline - now)
          /\ now + waited' <= now'
          /\ last'.ok => (last'.flushed <=> now' >= deadline)
          /\ (now >= deadline /\ last'.ok) => last'.flushed
          /\ last'.event = "timeout" => last'.flushed]_vars

C26_Witness ==
    /\ last.event = "envelope"
    /\ last.envelope.message.type = "sync"
    /\ last.flushed
    /\ waited = 0
    /\ now = start_time + 600
    /\ deadline = start_time + 3 * SYNC_INTERVAL
    /\ \E i \in DOMAIN sent : sent[i].message.type = "sync"

(***************************************************************************)
(* ClusterBoth: a cluster of either program, for the properties of every   *)
(* state (no fairness).                                                    *)
(***************************************************************************)
ClusterBoth == (InitClusterMulti \/ InitClusterStride) /\ [][NextCluster]_vars

\* The buffer of a for b (empty when a has no handler for b).
OutboxOf(a, b) ==
    IF b \in DOMAIN remote_node_handlers[a]
    THEN remote_node_handlers[a][b].unacknowledged_messages
    ELSE <<>>

C28_OutboxObserved ==
    /\ \A n \in DOMAIN remote_node_handlers[P1] : Range(Outbox(n)) \subseteq messages[P1]
    /\ \A i \in DOMAIN sent :
          sent[i].message.type = "sync" =>
              Range(sent[i].message.messages) \subseteq messages[P1]

C28_Witness ==
    /\ last.flushed
    /\ last.envelope.message.type = "sync"
    /\ "n2" \in DOMAIN remote_node_handlers[P1]
    /\ Outbox("n2") = <<1, 2>>
    /\ \E i \in DOMAIN sent :
          /\ sent[i].message.type = "sync"
          /\ sent[i].dest = "n2"
          /\ sent[i].message.messages = <<1, 2>>

\* C29: in a cluster, every value a node holds, every value pending in a
\* buffer and every value in flight in a Sync or SyncOk is a value some client
\* sent to some node in a Broadcast.
C29_Validity ==
    /\ \A p \in Procs : messages[p] \subseteq AllBroadcast
    /\ \A a \in Running, b \in Procs : Range(OutboxOf(a, b)) \subseteq AllBroadcast
    /\ \A e \in net :
          e.message.type \in {"sync", "sync_ok"} =>
              Range(e.message.messages) \subseteq AllBroadcast

C29_Witness ==
    /\ program = Multi
    /\ broadcasted = [p \in Procs |-> IF p = "n1" THEN {1} ELSE {}]
    /\ 1 \in messages["n3"]

(***************************************************************************)
(* ClusterFair: a cluster of either program under recurring flushes and    *)
(* eventual delivery.                                                      *)
(***************************************************************************)
ClusterFair ==
    (InitClusterMulti \/ InitClusterStride) /\ [][NextCluster]_vars /\ ClusterFairness

Quiet == \A a \in Procs, b \in Procs : OutboxOf(a, b) = <<>>

\* C30: under recurring flushes and eventual delivery the cluster comes to a
\* state from which every buffer of every node stays empty; and a step that
\* leaves every buffer empty puts no Sync in flight.
C30_Quiescence ==
    /\ <>[]Quiet
    /\ [][Quiet' => \A e \in net' \ net : e.message.type # "sync"]_vars

C30_Witness ==
    /\ Quiet
    /\ Cardinality(Running) = 3
    /\ broadcasted["n2"] = {1}
    /\ \A p \in Running : messages[p] = {1}
    /\ \E e \in net : e.message.type = "sync_ok" /\ e.dest = "n2"

\* C31: every Sync the node writes comes from the node's own id and goes to a
\* member of its neighbor list as it stands, never to the node itself.
C31_SyncToNeighbors ==
    \A i \in DOMAIN sent :
        sent[i].message.type = "sync" =>
            /\ sent[i].src = our_id[P1]
            /\ sent[i].dest # our_id[P1]
            /\ Contains(our_neighbors[P1], sent[i].dest)

(***************************************************************************)
(* SpecIds: the msg_id counter of envelope.rs, drawn on by the threads of  *)
(* one process.  The gossip state stands still.                            *)
(***************************************************************************)
Threads == {"main", "worker"}

\* Variant: the counter is read and left as it is.
load(counter, val) == [previous |-> counter, stored |-> counter]

\* MESSAGE_ID.fetch_add(val, Ordering::SeqCst): one atomic step that returns the
\* previous value.  (The addition wraps at the width of usize, which no run
\* within MaxBuilt comes near.)
fetch_add(counter, val) == [previous |-> counter, stored |-> counter + val]

\* The envelope with the msg_id its constructor drew.
Built(thread, by, env, id) ==
    [thread |-> thread, by |-> by, msg_id |-> Some(id), envelope |-> env]

BuildRequests ==
    {In(Client, Some(7), [type |-> "broadcast", message |-> 1]),
     [src |-> "n2", dest |-> P1, message |-> [type |-> "sync", messages |-> <<1>>]]}

\* Envelope::new(..) on thread t.
BuildNew(t) ==
    /\ Len(built) < MaxBuilt
    /\ \E dest \in Peers, f \in {fetch_add(MESSAGE_ID, 1)} :
         /\ MESSAGE_ID' = f.stored
         /\ built' = Append(built,
                Built(t, "new",
                      Envelope_new(P1, dest, None, [type |-> "sync", messages |-> <<1>>]),
                      f.previous))
    /\ UNCHANGED <<gossip, flood, goc, kafka, uid>>

\* envelope.reply(..) on thread t.
BuildReply(t) ==
    /\ Len(built) < MaxBuilt
    /\ \E env \in BuildRequests, f \in {fetch_add(MESSAGE_ID, 1)} :
         /\ MESSAGE_ID' = f.stored
         /\ built' = Append(built,
                Built(t, "reply", reply(env, [type |-> OkOf(env.message.type)]),
                      f.previous))
    /\ UNCHANGED <<gossip, flood, goc, kafka, uid>>

NextIds ==
    \/ \E t \in Threads : BuildNew(t)
    \/ \E t \in Threads : BuildReply(t)

SpecIds == Init /\ [][NextIds]_vars

\* C32: the envelopes a process builds, by Envelope::new or Envelope::reply and
\* on whichever thread, carry the msg_ids 0, 1, 2, ... in the order of their
\* creation: no two of them share a msg_id.
C32_UniqueIds ==
    /\ \A i \in DOMAIN built : built[i].msg_id = Some(i - 1)
    /\ \A i, j \in DOMAIN built : i # j => built[i].msg_id # built[j].msg_id
    /\ MESSAGE_ID = Len(built)

C32_Witness ==
    /\ Len(built) = MaxBuilt
    /\ built[1].thread = "worker" /\ built[1].by = "reply"
    /\ built[2].thread = "main" /\ built[2].by = "new"
    /\ built[3].thread = "worker" /\ built[3].by = "new"
    /\ built[MaxBuilt].thread = "main" /\ built[MaxBuilt].by = "reply"
    /\ built[MaxBuilt].msg_id = Some(MaxBuilt - 1)

(***************************************************************************)
(* SpecCounter: grow-only-counter.rs.  Two nodes, the seq-kv service and   *)
(* the clients.  Each node gets its Init once, before anything else; the   *)
(* network reorders and neither loses nor repeats.                         *)
(***************************************************************************)
GrowOnlyCounter == "grow-only-counter"

CounterNodes == {"n1", "n2"}

CounterNodeIds == <<"n1", "n2">>

Deltas == {1, 2}

SeqKv == "seq-kv"

\* The locals of handle_message as declared, and the MESSAGE_ID of the process.
InitialLocals ==
    [our_node_id |-> "", all_nodes |-> <<>>, our_value |-> 0, last_cas_flushed |-> 0,
     pending_add |-> 0, cas_pending |-> FALSE, last_cas |-> 0, MESSAGE_ID |-> 0]

\* What an arm leaves: the locals and the envelopes it sent, in order.
Wrote(st, out) == [st |-> st, out |-> out]

\* An envelope under construction takes the next msg_id of the process.
Stamp(r, env) ==
    \* r: the arm so far
    Wrote([r.st EXCEPT !.MESSAGE_ID = fetch_add(@, 1).stored],
          Append(r.out, [msg_id |-> Some(fetch_add(r.st.MESSAGE_ID, 1).previous)] @@ env))

\* Envelope::new(&our_node_id, dest, None, message).send()
SendNew(r, dest, message) == Stamp(r, Envelope_new(r.st.our_node_id, dest, None, message))

\* envelope.reply(message).send()
SendReply(r, env, message) == Stamp(r, reply(env, message))

\* message_for_kv_store(&our_node_id, Cas{..}); last_cas = its msg_id;
\* cas_pending = true; send.
SendCas(r, from, to, create) ==
    \* r: the arm so far
    Wrote([SendNew(r, SeqKv, [type |-> "cas"]).st EXCEPT
                !.last_cas = r.st.MESSAGE_ID, !.cas_pending = TRUE],
          SendNew(r, SeqKv, [type |-> "cas", key |-> "total", from |-> from, to |-> to,
                             create_if_not_exists |-> create]).out)

\* self.src.starts_with('n')
is_internal(env) == env.src \in CounterNodes

Max(a, b) == IF a >= b THEN a ELSE b

\* The CasOk arm.
CasOkArm(st, env) ==
    IF env.in_reply_to = Some(st.last_cas)
    THEN [st EXCEPT !.pending_add = 0, !.our_value = st.last_cas_flushed,
                    !.last_cas = 0, !.cas_pending = FALSE]
    ELSE st

\* match envelope.message() { .. } of handle_message.
CounterArm(st, env) ==
    CASE env.message.type = "init" ->
            SendCas(SendReply(Wrote([st EXCEPT !.our_node_id = env.message.node_id,
                                               !.all_nodes = env.message.node_ids], <<>>),
                              env, [type |-> "init_ok"]),
                    0, 0, Some(TRUE))
      [] env.message.type = "topology" ->
            SendReply(Wrote(st, <<>>), env, [type |-> "topology_ok"])
      [] env.message.type = "read" ->
            SendReply(Wrote(st, <<>>), env, [type |-> "read_ok", value |-> st.our_value])
      [] env.message.type = "add" ->
            SendReply(Wrote([st EXCEPT !.pending_add = @ + env.message.delta], <<>>),
                      env, [type |-> "add_ok"])
      [] env.message.type = "cas_ok" -> Wrote(CasOkArm(st, env), <<>>)
      [] env.message.type = "read_ok" ->
            Wrote([st EXCEPT !.our_value = IF is_internal(env)
                                           THEN Max(@, env.message.value)
                                           ELSE env.message.value], <<>>)
      [] env.message.type = "error" ->
            SendNew(Wrote([st EXCEPT !.cas_pending = FALSE], <<>>), SeqKv,
                    [type |-> "read", key |-> Some("total")])
      [] OTHER -> Wrote(st, <<>>)

\* The Timeout arm: with nothing pending, a Read to every other node, from
\* the i-th of all_nodes on.
RECURSIVE AskFrom(_, _)
AskFrom(r, i) ==
    IF i > Len(r.st.all_nodes) THEN r
    ELSE IF r.st.all_nodes[i] = r.st.our_node_id THEN AskFrom(r, i + 1)
         ELSE AskFrom(SendNew(r, r.st.all_nodes[i], [type |-> "read", key |-> None]), i + 1)

TimeoutArm(st) == IF st.pending_add = 0 THEN AskFrom(Wrote(st, <<>>), 1) ELSE Wrote(st, <<>>)

\* Variant: the flush does not wait for the answer to the last Cas.
CasFlushEager(r) ==
    IF r.st.pending_add # 0
    THEN SendCas(Wrote([r.st EXCEPT !.last_cas_flushed = r.st.our_value + r.st.pending_add],
                       r.out),
                 r.st.our_value, r.st.our_value + r.st.pending_add, None)
    ELSE r

\* The end of every iteration: with adds pending and no Cas in flight, a Cas
\* from our_value to our_value + pending_add.
CasFlush(r) ==
    IF r.st.pending_add # 0 /\ ~r.st.cas_pending
    THEN SendCas(Wrote([r.st EXCEPT !.last_cas_flushed = r.st.our_value + r.st.pending_add],
                       r.out),
                 r.st.our_value, r.st.our_value + r.st.pending_add, None)
    ELSE r

\* What the network carries on: the envelopes for a node or for seq-kv.
Carried(out) == {e \in Range(out) : e.dest \in CounterNodes \cup {SeqKv}}

AddOks(out) == Cardinality({i \in DOMAIN out : out[i].message.type = "add_ok"})

\* One iteration of the loop of n that received env.
CounterIterate(n, env) ==
    /\ locals[n].MESSAGE_ID < MaxIds
    /\ \E r \in {CasFlush(CounterArm(locals[n], env))} :
         /\ locals' = [locals EXCEPT ![n] = r.st]
         /\ wire' = (wire \ {env}) \cup Carried(r.out)
         /\ added' = [added EXCEPT ![n] = @ + (IF AddOks(r.out) > 0 THEN env.message.delta ELSE 0)]
    /\ UNCHANGED <<gossip, flood, ids, kafka, uid, seq_kv>>

\* The client sends n its Init, once and first.
CounterInit(n) ==
    /\ locals[n].our_node_id = ""
    /\ CounterIterate(n, [src |-> Client, dest |-> n, msg_id |-> Some(1),
                          message |-> [type |-> "init", node_id |-> n,
                                       node_ids |-> CounterNodeIds]])

\* A client sends Add{delta} to n.
CounterAdd(n, delta) ==
    /\ locals[n].our_node_id # ""
    /\ added["n1"] + added["n2"] + delta <= 2 * MaxAdds
    /\ CounterIterate(n, [src |-> Client, dest |-> n, msg_id |-> Some(2),
                          message |-> [type |-> "add", delta |-> delta]])

\* The network hands n an envelope in flight.
CounterDeliver(e) ==
    /\ e \in wire
    /\ e.dest \in CounterNodes
    /\ CounterIterate(e.dest, e)

\* recv_timeout of n ran out.
CounterTimeout(n) ==
    /\ locals[n].MESSAGE_ID < MaxIds
    /\ \E r \in {CasFlush(TimeoutArm(locals[n]))} :
         /\ locals' = [locals EXCEPT ![n] = r.st]
         /\ wire' = wire \cup Carried(r.out)
    /\ UNCHANGED <<gossip, flood, ids, kafka, uid, seq_kv, added>>

\* The answer of seq-kv to a request, and the value of the key afterwards.
KvAnswer(e) ==
    CASE e.message.type = "cas" ->
            IF seq_kv = None
            THEN IF e.message.create_if_not_exists = Some(TRUE)
                 THEN [value |-> Some(e.message.to), message |-> [type |-> "cas_ok"]]
                 ELSE [value |-> seq_kv, message |-> [type |-> "error", code |-> 20]]
            ELSE IF seq_kv = Some(e.message.from)
                 THEN [value |-> Some(e.message.to), message |-> [type |-> "cas_ok"]]
                 ELSE [value |-> seq_kv, message |-> [type |-> "error", code |-> 22]]
      [] e.message.type = "read" ->
            IF seq_kv = None
            THEN [value |-> seq_kv, message |-> [type |-> "error", code |-> 20]]
            ELSE [value |-> seq_kv, message |-> [type |-> "read_ok", value |-> seq_kv[1]]]
      [] OTHER -> [value |-> seq_kv, message |-> [type |-> "error", code |-> 10]]

\* seq-kv serves a request in flight.
KvServe(e) ==
    /\ e \in wire
    /\ e.dest = SeqKv
    /\ \E a \in {KvAnswer(e)} :
         /\ seq_kv' = a.value
         /\ wire' = (wire \ {e}) \cup {reply(e, a.message)}
    /\ UNCHANGED <<gossip, flood, ids, kafka, uid, locals, added>>

InitCounter ==
    /\ program = GrowOnlyCounter
    /\ InitState
    /\ NoClock
    /\ NoPipe
    /\ NoIds
    /\ NoKafka
    /\ NoUuid
    /\ NoFlood
    /\ locals = [n \in CounterNodes |-> InitialLocals]
    /\ seq_kv = None
    /\ wire = {}
    /\ added = [n \in CounterNodes |-> 0]

NextCounter ==
    \/ \E n \in CounterNodes : CounterInit(n)
    \/ \E n \in CounterNodes, delta \in Deltas : CounterAdd(n, delta)
    \/ \E e \in wire : CounterDeliver(e)
    \/ \E n \in CounterNodes : CounterTimeout(n)
    \/ \E e \in wire : KvServe(e)

SpecCounter == InitCounter /\ [][NextCounter]_vars

\* Nothing is in flight and no node has anything left to flush.
CounterQuiet ==
    /\ wire = {}
    /\ \A n \in CounterNodes : locals[n].pending_add = 0 /\ ~locals[n].cas_pending

\* C33: when nothing is in flight and no node has a pending add or an
\* unanswered Cas, the total in seq-kv is the sum of the deltas the nodes
\* answered with AddOk.
C33_NoLostAdds ==
    (CounterQuiet /\ seq_kv # None) => seq_kv = Some(added["n1"] + added["n2"])

\* The Cas requests of n in flight and the answers to them in flight.
Unanswered(n) ==
    {e \in wire : \/ e.src = n /\ e.message.type = "cas"
                  \/ e.dest = n /\ e.src = SeqKv /\ e.message.type \in {"cas_ok", "error"}}

Kafka == "kafka-part-1"

Keys == {"k1", "k2"}

Msgs == {1, 2}

\* The offsets a request may name.
Offsets == 0..MaxLog

\* Log::new
Log_new(msgs) == [storage |-> msgs, committed_offset |-> Len(msgs)]

\* Log::append: push, then the new length.
append(log, msg) ==
    [log |-> [log EXCEPT !.storage = Append(@, msg)], offset |-> Len(log.storage) + 1]

\* Log::commit_offset
Log_commit_offset(log, offset) == [log EXCEPT !.committed_offset = Max(@, offset)]

\* LogState::get_messages_from_offset: None without a log of the key; the
\* slice storage[offset..] panics when offset is beyond the length; else the
\* pairs [offset + idx, msg].
get_messages_from_offset(state, key, offset) ==
    IF key \notin DOMAIN state THEN [ok |-> TRUE, value |-> None]
    ELSE IF offset > Len(state[key].storage) THEN [ok |-> FALSE, value |-> None]
         ELSE [ok |-> TRUE,
               value |-> Some([idx \in 1..(Len(state[key].storage) - offset) |->
                                  <<offset + idx - 1, state[key].storage[offset + idx]>>])]

\* LogState::commit_offset: nothing without a log of the key.
LogState_commit_offset(state, key, offset) ==
    IF key \in DOMAIN state
    THEN [state EXCEPT ![key] = Log_commit_offset(@, offset)]
    ELSE state

\* LogState::get_committed_offset
get_committed_offset(state, key) ==
    IF key \in DOMAIN state THEN Some(state[key].committed_offset) ELSE None

\* The maps of a request: from some of the keys to offsets.
OffsetMaps == UNION {[ks -> Offsets] : ks \in SUBSET Keys \ {{}}}

KafkaRan(request, message) == [request |-> request, reply |-> message, ok |-> TRUE]

\* The Send arm: the first message of a key makes its log and is answered with
\* offset 1; a later one is answered with what append returns.
KafkaSend(key, msg) ==
    /\ kafka_last.ok
    /\ key \in DOMAIN logs => Len(logs[key].storage) < MaxLog
    /\ \E r \in {IF key \in DOMAIN logs
                 THEN append(logs[key], msg)
                 ELSE [log |-> Log_new(<<msg>>), offset |-> 1]} :
         /\ logs' = Insert(logs, key, r.log)
         /\ kafka_last' = KafkaRan([type |-> "send", key |-> key, msg |-> msg],
                                   [type |-> "send_ok", offset |-> r.offset])
         /\ sends' = [sends EXCEPT ![key] = Append(@, [msg |-> msg, offset |-> r.offset])]
    /\ UNCHANGED <<gossip, flood, ids, goc, uid, commits>>

\* The Poll arm: the keys without a log are left out of the reply.
KafkaPoll(offsets) ==
    /\ kafka_last.ok
    /\ \E found \in {[k \in DOMAIN offsets |->
                         get_messages_from_offset(logs, k, offsets[k])]} :
         kafka_last' =
            IF \A k \in DOMAIN offsets : found[k].ok
            THEN KafkaRan([type |-> "poll", offsets |-> offsets],
                          [type |-> "poll_ok",
                           msgs |-> [k \in {x \in DOMAIN offsets : found[x].value # None} |->
                                        found[k].value[1]]])
            ELSE [request |-> [type |-> "poll", offsets |-> offsets],
                  reply |-> [type |-> "none"], ok |-> FALSE]
    /\ UNCHANGED <<gossip, flood, ids, goc, uid, logs, sends, commits>>

\* offsets.into_iter().for_each(|(key, offset)| state.commit_offset(key, offset)),
\* over the keys of order from the i-th on.
RECURSIVE CommitFrom(_, _, _, _)
CommitFrom(state, offsets, order, i) ==
    IF i > Len(order) THEN state
    ELSE CommitFrom(LogState_commit_offset(state, order[i], offsets[order[i]]),
                    offsets, order, i + 1)

\* The CommitOffsets arm.
KafkaCommitOffsets(offsets) ==
    /\ kafka_last.ok
    /\ \E order \in Orders(DOMAIN offsets) : logs' = CommitFrom(logs, offsets, order, 1)
    /\ kafka_last' = KafkaRan([type |-> "commit_offsets", offsets |-> offsets],
                              [type |-> "commit_offsets_ok"])
    /\ commits' = [k \in Keys |-> IF k \in DOMAIN offsets
                                  THEN commits[k] \cup {offsets[k]}
                                  ELSE commits[k]]
    /\ UNCHANGED <<gossip, flood, ids, goc, uid, sends>>

\* The ListCommittedOffsets arm: the keys without a log are left out.
KafkaListCommittedOffsets(keys) ==
    /\ kafka_last.ok
    /\ kafka_last' =
          KafkaRan([type |-> "list_committed_offsets", keys |-> keys],
                   [type |-> "list_committed_offsets_ok",
                    offsets |-> [k \in {x \in keys : get_committed_offset(logs, x) # None} |->
                                    get_committed_offset(logs, k)[1]]])
    /\ UNCHANGED <<gossip, flood, ids, goc, uid, logs, sends, commits>>

InitKafka ==
    /\ program = Kafka
    /\ InitState
    /\ NoClock
    /\ NoPipe
    /\ NoIds
    /\ NoCounter
    /\ NoUuid
    /\ NoFlood
    /\ logs = EmptyMap
    /\ kafka_last = KafkaRan([type |-> "none"], [type |-> "none"])
    /\ sends = [k \in Keys |-> <<>>]
    /\ commits = [k \in Keys |-> {}]

NextKafka ==
    \/ \E key \in Keys, msg \in Msgs : KafkaSend(key, msg)
    \/ \E offsets \in OffsetMaps : KafkaPoll(offsets)
    \/ \E offsets \in OffsetMaps : KafkaCommitOffsets(offsets)
    \/ \E keys \in SUBSET Keys : KafkaListCommittedOffsets(keys)

SpecKafka == InitKafka /\ [][NextKafka]_vars

\* The messages of key at an offset of o or more, with the offsets their
\* SendOk gave them, in the order they were sent.
SentFrom(key, o) ==
    [i \in DOMAIN SelectSeq(sends[key], LAMBDA x : x.offset >= o) |->
        <<SelectSeq(sends[key], LAMBDA x : x.offset >= o)[i].offset,
          SelectSeq(sends[key], LAMBDA x : x.offset >= o)[i].msg>>]

\* C35: the offsets of the SendOks of a key increase strictly, and a Poll
\* answers, for each key it names that has messages, exactly the messages of
\* that key whose SendOk offset is the named offset or more, each under
\* its SendOk offset, in offset order.
C35_OffsetsAgree ==
    /\ \A k \in Keys : \A i, j \in DOMAIN sends[k] :
          i < j => sends[k][i].offset < sends[k][j].offset
    /\ kafka_last.request.type = "poll" =>
          /\ kafka_last.ok
          /\ \A k \in DOMAIN kafka_last.request.offsets :
                sends[k] # <<>> =>
                    /\ k \in DOMAIN kafka_last.reply.msgs
                    /\ kafka_last.reply.msgs[k] = SentFrom(k, kafka_last.request.offsets[k])

\* C36: ListCommittedOffsetsOk reports, for each key it was asked about, the
\* largest offset the CommitOffsets processed so far named for that key, and
\* nothing for a key none of them named.
C36_CommittedOffsets ==
    kafka_last.request.type = "list_committed_offsets" =>
        \A k \in kafka_last.request.keys :
            IF commits[k] = {}
            THEN k \notin DOMAIN kafka_last.reply.offsets
            ELSE /\ k \in DOMAIN kafka_last.reply.offsets
                 /\ \A o \in commits[k] : o <= kafka_last.reply.offsets[k]
                 /\ kafka_last.reply.offsets[k] \in commits[k]

(***************************************************************************)
(* SpecUuid: unique-id-generation.rs, three processes with distinct node   *)
(* ids.  A String is a sequence of characters.                             *)
(***************************************************************************)
UniqueIds == "unique-id-generation"

UuidProcs == 1..3

\* The node ids "n1", "n11" and "n1-1".
UuidNodeIds == << <<"n", "1">>, <<"n", "1", "1">>, <<"n", "1", "-", "1">> >>

DecimalDigits == <<"0", "1", "2", "3", "4", "5", "6", "7", "8", "9">>

\* The Display of a usize: its decimal digits.
RECURSIVE Decimal(_)
Decimal(n) ==
    IF n < 10 THEN <<DecimalDigits[n + 1]>>
    ELSE Decimal(n \div 10) \o <<DecimalDigits[(n % 10) + 1]>>

\* Variant: the id is the node id followed by the counter.
format_unseparated(node_id, count) == node_id \o Decimal(count)

\* format!("{}-{}", our_id, count)
format(node_id, count) == node_id \o <<"-">> \o Decimal(count)

\* let mut our_id = None; let id = AtomicUsize::new(0);
InitialUuid == [our_id |-> None, id |-> 0, pc |-> "running"]

\* The Init arm.
UuidInit(p) ==
    /\ uuid[p].pc = "running"
    /\ uuid[p].our_id # Some(UuidNodeIds[p])
    /\ uuid' = [uuid EXCEPT ![p].our_id = Some(UuidNodeIds[p])]
    /\ UNCHANGED <<gossip, flood, ids, goc, kafka, generated>>

\* The Generate arm: our_id.as_ref().unwrap() panics before Init.
UuidGenerate(p) ==
    /\ uuid[p].pc = "running"
    /\ uuid[p].id < MaxGenerate
    /\ IF uuid[p].our_id = None
       THEN /\ uuid' = [uuid EXCEPT ![p].pc = "panicked"]
            /\ generated' = generated
       ELSE \E f \in {fetch_add(uuid[p].id, 1)} :
               /\ uuid' = [uuid EXCEPT ![p].id = f.stored]
               /\ generated' = [generated EXCEPT ![p] =
                                    Append(@, format(uuid[p].our_id[1], f.previous))]
    /\ UNCHANGED <<gossip, flood, ids, goc, kafka>>

InitUuid ==
    /\ program = UniqueIds
    /\ InitState
    /\ NoClock
    /\ NoPipe
    /\ NoIds
    /\ NoCounter
    /\ NoKafka
    /\ NoFlood
    /\ uuid = [p \in UuidProcs |-> InitialUuid]
    /\ generated = [p \in UuidProcs |-> <<>>]

NextUuid ==
    \/ \E p \in UuidProcs : UuidInit(p)
    \/ \E p \in UuidProcs : UuidGenerate(p)

SpecUuid == InitUuid /\ [][NextUuid]_vars

\* C37: the ids of the GenerateOks, of one process or of different ones, are
\* pairwise distinct; the i-th id of a process is its node id, a hyphen, and
\* i - 1.
C37_UniqueIds ==
    /\ \A p, q \in UuidProcs : \A i \in DOMAIN generated[p], j \in DOMAIN generated[q] :
          <<p, i>> # <<q, j>> => generated[p][i] # generated[q][j]
    /\ \A p \in UuidProcs : \A i \in DOMAIN generated[p] :
          generated[p][i] = UuidNodeIds[p] \o <<"-">> \o Decimal(i - 1)

C37_Witness ==
    /\ Len(generated[1]) = MaxGenerate
    /\ generated[1][MaxGenerate] = <<"n", "1", "-", "1", "1">>
    /\ Len(generated[2]) = 2
    /\ generated[2][2] = <<"n", "1", "1", "-", "1">>
    /\ Len(generated[3]) = 2


(***************************************************************************)
(* The flooding broadcast of src/broadcast/src/main.rs, on the runtime of  *)
(* src/maelstrom-common: a thread reads the lines of stdin into a String   *)
(* and sends what it decodes to the loop, which calls handle_message.  A   *)
(* Vec<String> built from a HashSet and collected into one again is a set. *)
(***************************************************************************)
Flooding == "broadcast"

FloodNodes == {"n1", "n2", "n3"}

FloodValues == 1..MaxValue

FloodClient == "c1"

\* The connected topologies of the three nodes: the line and the triangle.
FloodTopologies ==
    { [n \in FloodNodes |-> IF n = "n2" THEN {"n1", "n3"} ELSE {"n2"}],
      [n \in FloodNodes |-> FloodNodes \ {n}] }

\* Broadcast::default()
InitialBroadcast ==
    [node_id |-> None, neighbors |-> {}, messages |-> {}, all_nodes |-> None,
     pc |-> "running"]

FloodEnvelope(source, target, content) ==
    [src |-> source, dest |-> target, body |-> content]

\* What handle_message leaves: the struct, the envelopes of send_message,
\* and the response it returns.
FloodDone(st, out, response) == [st |-> st, out |-> out, response |-> response]

FloodPanic(st) == FloodDone([st EXCEPT !.pc = "panicked"], {}, None)

\* Deserialize of Request: the tag names a variant, and the fields of the
\* variant are required.
IsRequest(content) ==
    \/ content.type \in {"init", "broadcast", "read", "topology"}
    \/ content.type = "internal" /\ "request" \in DOMAIN content

\* serde_json::from_str::<Envelope<Request>>(&buffer): one value, and nothing
\* but whitespace after it.
from_str(lines) ==
    IF Len(lines) = 1 /\ IsRequest(lines[1].body) THEN Some(lines[1]) ELSE None

\* Broadcast::propagate: None where node_id.unwrap() panics.
propagate(st, message, forward_to, remaining_nodes) ==
    IF st.node_id = None THEN None
    ELSE Some({FloodEnvelope(st.node_id[1], neighbor,
                   [type |-> "internal",
                    request |-> [type |-> "add", value |-> message,
                                 remaining_nodes |-> remaining_nodes]]) :
               neighbor \in forward_to})

\* process_internal_message_request, InternalRequest::Add.
process_internal_message_request(st, msg) ==
    LET stored == [st EXCEPT !.messages = @ \cup {msg.value}]
        forward_to == st.neighbors \cap msg.remaining_nodes
        remaining_nodes == msg.remaining_nodes \ forward_to
        out == propagate(stored, msg.value, forward_to, remaining_nodes)
    IN  IF out = None THEN FloodPanic(stored)
        ELSE FloodDone(stored, out[1],
                 Some([type |-> "internal",
                       response |-> [type |-> "add_ok", forwarded_to |-> forward_to]]))

FloodReply(env, response) == FloodEnvelope(env.dest, env.src, response)

\* The Init arm.
FloodInitArm(st, env) ==
    FloodDone([st EXCEPT !.node_id = Some(env.body.node_id),
                         !.all_nodes = Some(env.body.node_ids)], {},
              Some(FloodReply(env, [type |-> "init_ok", in_reply_to |-> env.body.msg_id])))

\* The Topology arm: node_id.unwrap() and topology.get(..).expect(..) panic.
FloodTopologyArm(st, env) ==
    IF st.node_id = None \/ st.node_id[1] \notin DOMAIN env.body.topology
    THEN FloodPanic(st)
    ELSE FloodDone([st EXCEPT !.neighbors = env.body.topology[st.node_id[1]]], {},
             Some(FloodReply(env, [type |-> "topology_ok",
                                   in_reply_to |-> env.body.msg_id])))

\* The Broadcast arm: all_nodes.unwrap() panics after the insert.
FloodBroadcastArm(st, env) ==
    LET stored == [st EXCEPT !.messages = @ \cup {env.body.message}]
    IN  IF st.all_nodes = None THEN FloodPanic(stored)
        ELSE LET remaining_nodes == st.all_nodes[1] \ st.neighbors
                 forward_to == st.neighbors
                 out == propagate(stored, env.body.message, forward_to, remaining_nodes)
             IN  IF out = None THEN FloodPanic(stored)
                 ELSE FloodDone(stored, out[1],
                          Some(FloodReply(env, [type |-> "broadcast_ok",
                                                in_reply_to |-> env.body.msg_id])))

\* The Read arm.
FloodReadArm(st, env) ==
    FloodDone(st, {},
        Some(FloodReply(env, [type |-> "read_ok", in_reply_to |-> env.body.msg_id,
                              messages |-> st.messages])))

\* The Internal arm: the response goes back to the sender of the request.
FloodInternalArm(st, env) ==
    LET r == process_internal_message_request(st, env.body.request)
    IN  IF r.response = None THEN r
        ELSE FloodDone(r.st, r.out, Some(FloodReply(env, r.response[1])))

\* Broadcast::handle_message
flood_handle_message(st, env) ==
    CASE env.body.type = "init" -> FloodInitArm(st, env)
      [] env.body.type = "topology" -> FloodTopologyArm(st, env)
      [] env.body.type = "broadcast" -> FloodBroadcastArm(st, env)
      [] env.body.type = "read" -> FloodReadArm(st, env)
      [] env.body.type = "internal" -> FloodInternalArm(st, env)

\* The lines the client sends: Init, then Topology, then Broadcasts.
FloodInitLine(n) ==
    FloodEnvelope(FloodClient, n,
        [type |-> "init", msg_id |-> 1, node_id |-> n, node_ids |-> FloodNodes])

FloodTopologyLine(n, t) ==
    FloodEnvelope(FloodClient, n, [type |-> "topology", msg_id |-> 2, topology |-> t])

FloodBroadcastLine(n, v) ==
    FloodEnvelope(FloodClient, n, [type |-> "broadcast", msg_id |-> 2 + v, message |-> v])

FloodOk(n, type) == \E e \in answered : e.src = n /\ e.body.type = type

\* The client sends Init to a node once.
FloodClientInit(n) ==
    /\ FloodInitLine(n) \notin asked
    /\ asked' = asked \cup {FloodInitLine(n)}
    /\ links' = links (+) SetToBag({FloodInitLine(n)})
    /\ UNCHANGED <<gossip, ids, goc, kafka, uid, actor, buffer, inbound_msg_rx, answered>>

\* The client sends the same Topology to every node that answered Init.
FloodClientTopology(n, t) ==
    /\ FloodOk(n, "init_ok")
    /\ \A m \in FloodNodes, u \in FloodTopologies :
          FloodTopologyLine(m, u) \in asked => u = t /\ m # n
    /\ asked' = asked \cup {FloodTopologyLine(n, t)}
    /\ links' = links (+) SetToBag({FloodTopologyLine(n, t)})
    /\ UNCHANGED <<gossip, ids, goc, kafka, uid, actor, buffer, inbound_msg_rx, answered>>

\* The client sends a Broadcast of the next value, to any node, once every
\* node answered Topology.
FloodClientBroadcast(n, v) ==
    /\ \A m \in FloodNodes : FloodOk(m, "topology_ok")
    /\ \A m \in FloodNodes : FloodBroadcastLine(m, v) \notin asked
    /\ \A u \in 1..(v - 1) : \E m \in FloodNodes : FloodBroadcastLine(m, u) \in asked
    /\ asked' = asked \cup {FloodBroadcastLine(n, v)}
    /\ links' = links (+) SetToBag({FloodBroadcastLine(n, v)})
    /\ UNCHANGED <<gossip, ids, goc, kafka, uid, actor, buffer, inbound_msg_rx, answered>>

\* One iteration of the stdin thread: read_line appends a line to the
\* buffer; what decodes is sent to the loop and the buffer cleared, and what
\* does not decode stays in the buffer.
FloodReadLine(n) ==
    /\ actor[n].pc = "running"
    /\ \E e \in BagToSet(links) :
          /\ e.dest = n
          /\ links' = links (-) SetToBag({e})
          /\ \E msg \in {from_str(Append(buffer[n], e))} :
                IF msg = None
                THEN /\ buffer' = [buffer EXCEPT ![n] = Append(@, e)]
                     /\ UNCHANGED inbound_msg_rx
                ELSE /\ buffer' = [buffer EXCEPT ![n] = <<>>]
                     /\ inbound_msg_rx' = [inbound_msg_rx EXCEPT ![n] = Append(@, msg[1])]
    /\ UNCHANGED <<gossip, ids, goc, kafka, uid, actor, asked, answered>>

\* Where the envelopes a node writes go: to the stdin of a node, or to the
\* client.
FloodToNodes(written) == {e \in written : e.dest \in FloodNodes}

\* One iteration of the loop: recv, handle_message, and the response.
FloodLoop(n) ==
    /\ actor[n].pc = "running"
    /\ inbound_msg_rx[n] # <<>>
    /\ \E r \in {flood_handle_message(actor[n], Head(inbound_msg_rx[n]))} :
          \E written \in {r.out \cup (IF r.response = None THEN {} ELSE {r.response[1]})} :
             /\ actor' = [actor EXCEPT ![n] = r.st]
             /\ links' = links (+) SetToBag(FloodToNodes(written))
             /\ answered' = answered \cup (written \ FloodToNodes(written))
    /\ inbound_msg_rx' = [inbound_msg_rx EXCEPT ![n] = Tail(@)]
    /\ UNCHANGED <<gossip, ids, goc, kafka, uid, buffer, asked>>

InitFlood ==
    /\ program = Flooding
    /\ InitState
    /\ NoClock
    /\ NoPipe
    /\ NoIds
    /\ NoCounter
    /\ NoKafka
    /\ NoUuid
    /\ actor = [n \in FloodNodes |-> InitialBroadcast]
    /\ buffer = [n \in FloodNodes |-> <<>>]
    /\ inbound_msg_rx = [n \in FloodNodes |-> <<>>]
    /\ links = EmptyBag
    /\ asked = {}
    /\ answered = {}

NextFlood ==
    \/ \E n \in FloodNodes : FloodClientInit(n)
    \/ \E n \in FloodNodes, t \in FloodTopologies : FloodClientTopology(n, t)
    \/ \E n \in FloodNodes, v \in FloodValues : FloodClientBroadcast(n, v)
    \/ \E n \in FloodNodes : FloodReadLine(n)
    \/ \E n \in FloodNodes : FloodLoop(n)

\* Every line on its way is read, and every decoded message is handled.
FloodFairness ==
    /\ \A n \in FloodNodes : WF_vars(FloodReadLine(n))
    /\ \A n \in FloodNodes : WF_vars(FloodLoop(n))

SpecFlood == InitFlood /\ [][NextFlood]_vars /\ FloodFairness

FloodHas(n, v) == v \in actor[n].messages

\* The Adds not yet handled: on their way, or decoded and waiting for the loop.
FloodAdds(place) == {e \in place : e.body.type = "internal" /\ "request" \in DOMAIN e.body}

\* C38: on a connected topology, with every line on its way to a node read
\* by it, a value that a node took from a Broadcast is eventually in the
\* message set of every node.
C38_FloodReachesAll ==
    \A v \in FloodValues :
        (\E n \in FloodNodes : FloodHas(n, v)) ~> (\A n \in FloodNodes : FloodHas(n, v))

\* Forwarding stops: eventually no Add is on its way to a node any more.
FloodForwardingStops == <>[](FloodAdds(BagToSet(links)) = {})

====
